---- MODULE Spec2Model ----
(***************************************************************************)
(* The mono interpreter's evaluator (src/src/evaluator/mod.rs) over its    *)
(* symbol table (src/src/evaluator/symbol_table.rs).                       *)
(*                                                                         *)
(* Evaluator::evaluate is recursive; here the Rust call stack of evaluate  *)
(* invocations is the variable `stack`, one frame per invocation, and one  *)
(* action per eval_* method moves the innermost invocation by one step:    *)
(* it either calls evaluate on a child node or returns a Result.           *)
(***************************************************************************)
EXTENDS Integers, Sequences, FiniteSets, TLC

VARIABLES
    tables,   \* SymbolTable.tables : Vec<HashMap<String, Value>>
    heap,     \* the storage of every Rc<RefCell<Vec<Value>>> made so far
    stack,    \* the active evaluate() invocations, innermost last
    res,      \* the Result the invocation that just returned handed up
    done,     \* observation: the invocation that just returned
    returning, \* observation: the value of the `return` being unwound
    lines,    \* REPL lines read so far
    steps,    \* steps taken for the current line
    input,    \* the characters given to Tokenizer::new
    tokenizer, \* Tokenizer {chars, overhead, position}
    yielded,  \* observation: the items Iterator::next has returned
    mark,     \* observation: characters consumed before overhead was lexed
    peeked,   \* observation: what the calls of peek before a next returned
    ast,      \* the ParserItem the parser returned
    remaining, \* observation: the items the parser left in the tokenizer
    operation, \* an operator with its operand Values
    outcome   \* the Result of the operation or of the evaluation

\* No call of peek and no call of next after it.
NoPeek == [items |-> <<>>, answer |-> <<>>]

evaluatorVars == <<tables, heap, stack, res, done, returning, lines, steps>>
frontVars == <<input, tokenizer, yielded, mark, peeked, ast, remaining>>
valueVars == <<operation, outcome>>
vars == <<evaluatorVars, frontVars, valueVars>>

(* ------------------------------ bounds -------------------------------- *)

\* REPL lines per session.
MaxLines == 4
\* Depth of the Rust call stack (nested evaluate invocations).
MaxDepth == 14
\* Steps per REPL line (cuts loops that do not end).
MaxSteps == 70

(* ------------------------------ values -------------------------------- *)

Integer(n) == [t |-> "Integer", i |-> n]
Boolean(b) == [t |-> "Boolean", b |-> b]
\* Value::Float(f32). A finite float is kept as the fraction n/d in lowest
\* terms with d > 0 (the rounding of f32 is not modelled); FloatOf makes it.
\* NaN and Infinity are results of `%` and powf; Inexact is a finite result
\* of powf that is no fraction, its digits are not kept.
Float(n, d) == [t |-> "Float", k |-> "finite", n |-> n, d |-> d]
NaN == [t |-> "Float", k |-> "NaN", n |-> 0, d |-> 0]
Infinity == [t |-> "Float", k |-> "inf", n |-> 1, d |-> 0]
Inexact == [t |-> "Float", k |-> "inexact", n |-> 0, d |-> 0]
None == [t |-> "None"]
\* Value::List(Rc<RefCell<Vec<Value>>>): the value is the handle h, the
\* vector is heap[h]; cloning the value copies the handle.
List(h) == [t |-> "List", h |-> h]
Function(name, arguments, body) ==
    [t |-> "Function", name |-> name, arguments |-> arguments, body |-> body]
BuiltInFunction(name, arguments) ==
    [t |-> "BuiltInFunction", name |-> name, arguments |-> arguments]

\* Result<Value, Box<dyn MonoError>>
Ok(v) == [st |-> "Ok", v |-> v]
Err(e) == [st |-> "Err", e |-> e]
\* No Result yet: a child invocation is running, or nothing has run.
Pending == [st |-> "Pending"]

UnknownIdentifier(identifier) ==
    [kind |-> "UnknownIdentifier", identifier |-> identifier]
InvalidValue(expected, found) ==
    [kind |-> "InvalidValue", expected |-> expected, found |-> found]
InvalidOperation(operator, right, left) ==
    [kind |-> "InvalidOperation", operator |-> operator,
     right |-> right, left |-> left]
DivisionByZero(operator) == [kind |-> "DivisionByZero", division |-> operator]
IncorrectParameters(name, call, expected, found) ==
    [kind |-> "IncorrectParameters", name |-> name, call |-> call,
     expected |-> expected, found |-> found]

\* Value::from(&Token): the value of a literal token.
ValueFrom(token) ==
    CASE token.kind = "Integer" -> Integer(token.v)
      [] token.kind = "Float" -> token.v
      [] token.kind = "Boolean" -> Boolean(token.v)

(* ------------------------------- nodes -------------------------------- *)

Atom(value) == [k |-> "Atom", value |-> value]
ListNode(values) == [k |-> "List", values |-> values]
BinaryOp(left, operator, right) ==
    [k |-> "BinaryOp", left |-> left, operator |-> operator, right |-> right]
UnaryOp(operator, value) ==
    [k |-> "UnaryOp", operator |-> operator, value |-> value]
FuncDeclearion(identifier, arguments, body) ==
    [k |-> "FuncDeclearion", identifier |-> identifier,
     arguments |-> arguments, body |-> body]
FuncCall(identifier, parameters) ==
    [k |-> "FuncCall", identifier |-> identifier, parameters |-> parameters]
Assignment(identifier, value, is_declaration) ==
    [k |-> "Assignment", identifier |-> identifier, value |-> value,
     is_declaration |-> is_declaration]
ListAssignment(identifier, index, value) ==
    [k |-> "ListAssignment", identifier |-> identifier, index |-> index,
     value |-> value]
Access(identifier) == [k |-> "Access", identifier |-> identifier]
Index(identifier, index) ==
    [k |-> "Index", identifier |-> identifier, index |-> index]
\* else_block : Option<Box<Node>> is <<>> (None) or <<node>> (Some).
If(condition, block, else_block) ==
    [k |-> "If", condition |-> condition, block |-> block,
     else_block |-> else_block]
While(condition, block) ==
    [k |-> "While", condition |-> condition, block |-> block]
Return(value) == [k |-> "Return", value |-> value]
Program(statements) == [k |-> "Program", statements |-> statements]

(* --------------------------- symbol table ----------------------------- *)

\* HashMap::new()
EmptyMap == [id \in {} |-> None]
\* HashMap::insert
Put(m, id, v) == [x \in DOMAIN m \cup {id} |-> IF x = id THEN v ELSE m[x]]

\* SymbolTable::insert: writes into tables.first_mut(), the table at index 0
\* of the vector (1 here), whatever the number of tables.
insert(T, identifier, value) ==
    [T EXCEPT ![1] = Put(T[1], identifier, value)]

\* The index of the first table, in the order of the vector, that holds the
\* identifier; 0 when none does (the `for table in &self.tables` loops).
FirstTable(T, identifier) ==
    LET hits == {i \in 1..Len(T) : identifier \in DOMAIN T[i]}
    IN IF hits = {} THEN 0 ELSE CHOOSE i \in hits : \A j \in hits : i <= j

\* SymbolTable::get: Option<Value> is <<>> (None) or <<value>> (Some), the
\* value a clone (for a List, the same handle).
get(T, identifier) ==
    LET i == FirstTable(T, identifier)
    IN IF i = 0 THEN <<>> ELSE <<T[i][identifier]>>

\* get_mut_set writing a binding of the current scope instead of the one
\* found.
get_mut_set_innermost(T, identifier, value) ==
    [T EXCEPT ![Len(T)] = Put(T[Len(T)], identifier, value)]

\* SymbolTable::get_mut followed by `*old = value`.
get_mut_set(T, identifier, value) ==
    LET i == FirstTable(T, identifier)
    IN [T EXCEPT ![i] = Put(T[i], identifier, value)]

\* SymbolTable::scope
scope(T) == Append(T, EmptyMap)
\* SymbolTable::unscope, below its panic guard.
unscope(T) == SubSeq(T, 1, Len(T) - 1)

\* builtins::builtin
builtin(name, arg_names) == <<name, BuiltInFunction(name, arg_names)>>
\* SymbolTable::insert_tuple
insert_tuple(T, pair) == insert(T, pair[1], pair[2])
\* SymbolTable::add_builtins
add_builtins(T) ==
    insert_tuple(insert_tuple(insert_tuple(insert_tuple(insert_tuple(
    insert_tuple(T,
        builtin("println", <<"x">>)),
        builtin("print", <<"x">>)),
        builtin("exit", <<"exit_code">>)),
        builtin("input", <<>>)),
        builtin("integer", <<"string">>)),
        builtin("string", <<"value">>))
\* SymbolTable::new
SymbolTableNew == <<EmptyMap>>

(* ------------------------- value operations --------------------------- *)

\* A panic of the Rust program (todo!(), unreachable!(), an arithmetic panic).
Panic(msg) == [st |-> "Panic", msg |-> msg]

Abs(n) == IF n < 0 THEN -n ELSE n
\* i32 division and remainder truncate toward zero.
TruncDiv(a, b) ==
    IF (a >= 0) = (b > 0) THEN Abs(a) \div Abs(b) ELSE -(Abs(a) \div Abs(b))
TruncRem(a, b) == a - b * TruncDiv(a, b)
RECURSIVE IntPow(_, _)
IntPow(a, b) == IF b = 0 THEN 1 ELSE a * IntPow(a, b - 1)

\* The bounds of an i32.
I32Max == 2147483647
I32Min == -I32Max - 1

\* (a as f64).powi(b) as i32 for b >= 0: the power, or the nearest i32 when
\* the power is out of range (a float to integer cast saturates).
RECURSIVE PowI32(_, _)
PowI32(a, b) ==
    IF b = 0 THEN 1
    ELSE IF a \in {0, 1} THEN a
    ELSE IF a = -1 THEN (IF b % 2 = 0 THEN 1 ELSE -1)
    ELSE IF b > 31 THEN (IF a > 0 \/ b % 2 = 0 THEN I32Max ELSE I32Min)
    ELSE LET p == PowI32(a, b - 1)
         IN IF p = I32Min \/ a = I32Min \/ Abs(p) > I32Max \div Abs(a)
            THEN (IF (p > 0) = (a > 0) THEN I32Max ELSE I32Min)
            ELSE p * a

RECURSIVE GCD(_, _)
GCD(a, b) == IF b = 0 THEN Abs(a) ELSE GCD(b, a % b)
\* The f32 that is n/d, for d # 0.
FloatOf(n, d) ==
    LET g == GCD(Abs(n), Abs(d))
    IN IF d > 0 THEN Float(n \div g, d \div g)
       ELSE Float((-n) \div g, (-d) \div g)
\* a as f32
AsFloat(a) == Float(a, 1)
\* f32 `+ - * /` and `%` (fmod: the remainder has the sign of a; b = 0.0
\* gives NaN) on finite operands.
FAdd(a, b) == FloatOf(a.n * b.d + b.n * a.d, a.d * b.d)
FSub(a, b) == FloatOf(a.n * b.d - b.n * a.d, a.d * b.d)
FMul(a, b) == FloatOf(a.n * b.n, a.d * b.d)
FDiv(a, b) == FloatOf(a.n * b.d, a.d * b.n)
FRem(a, b) ==
    IF b.n = 0 THEN NaN
    ELSE FSub(a, FMul(AsFloat(TruncDiv(a.n * b.d, a.d * b.n)), b))
FLess(a, b) == a.n * b.d < b.n * a.d
\* f32::powf on finite operands: a fraction when the exponent is whole or
\* the base is 0 or 1.
FPow(a, b) ==
    IF b.d = 1
    THEN IF b.n >= 0 THEN FloatOf(IntPow(a.n, b.n), IntPow(a.d, b.n))
         ELSE IF a.n = 0 THEN Infinity
         ELSE FloatOf(IntPow(a.d, -b.n), IntPow(a.n, -b.n))
    ELSE IF a.n < 0 THEN NaN
    ELSE IF a.n = 0 THEN (IF b.n > 0 THEN a ELSE Infinity)
    ELSE IF a = Float(1, 1) THEN a
    ELSE Inexact

\* invalid_operation!(operator, Some(right), left): `right` is self.
invalid_binary(self, other, operator) ==
    Err(InvalidOperation(operator, <<self>>, other))
invalid_unary(self, operator) == Err(InvalidOperation(operator, <<>>, self))

BothInteger(self, other) == self.t = "Integer" /\ other.t = "Integer"
BothFloat(self, other) == self.t = "Float" /\ other.t = "Float"
BothBoolean(self, other) == self.t = "Boolean" /\ other.t = "Boolean"

\* Value::add, sub, mul. The operands of this model are small, far from the
\* limits of i32.
add(self, other, operator) ==
    IF BothInteger(self, other) THEN Ok(Integer(self.i + other.i))
    ELSE IF BothFloat(self, other) THEN Ok(FAdd(self, other))
    ELSE invalid_binary(self, other, operator)
sub(self, other, operator) ==
    IF BothInteger(self, other) THEN Ok(Integer(self.i - other.i))
    ELSE IF BothFloat(self, other) THEN Ok(FSub(self, other))
    ELSE invalid_binary(self, other, operator)
mul(self, other, operator) ==
    IF BothInteger(self, other) THEN Ok(Integer(self.i * other.i))
    ELSE IF BothFloat(self, other) THEN Ok(FMul(self, other))
    ELSE invalid_binary(self, other, operator)
\* Value::div: the Integer(0) divisor arm comes first.
div(self, other, operator) ==
    IF BothInteger(self, other)
    THEN IF other.i = 0 THEN Err(DivisionByZero(operator))
         ELSE Ok(Integer(TruncDiv(self.i, other.i)))
    ELSE IF BothFloat(self, other)
    THEN IF other.n = 0 THEN Err(DivisionByZero(operator))
         ELSE Ok(FDiv(self, other))
    ELSE invalid_binary(self, other, operator)
\* Value::modulo: no zero arm; `a % 0` on i32 panics, on f32 it is NaN.
modulo(self, other, operator) ==
    IF BothInteger(self, other)
    THEN IF other.i = 0
         THEN Panic("attempt to calculate the remainder with a divisor of zero")
         ELSE Ok(Integer(TruncRem(self.i, other.i)))
    ELSE IF BothFloat(self, other) THEN Ok(FRem(self, other))
    ELSE invalid_binary(self, other, operator)
\* Value::pow: Integer ^ negative Integer is todo!().
pow(self, other, operator) ==
    IF BothInteger(self, other)
    THEN IF other.i >= 0 THEN Ok(Integer(PowI32(self.i, other.i)))
         ELSE Panic("not yet implemented")
    ELSE IF self.t = "Integer" /\ other.t = "Float"
    THEN Ok(FPow(AsFloat(self.i), other))
    ELSE IF self.t = "Float" /\ other.t = "Integer"
    THEN Ok(FPow(self, AsFloat(other.i)))
    ELSE IF BothFloat(self, other) THEN Ok(FPow(self, other))
    ELSE invalid_binary(self, other, operator)
and(self, other, operator) ==
    IF BothBoolean(self, other) THEN Ok(Boolean(self.b /\ other.b))
    ELSE invalid_binary(self, other, operator)
or(self, other, operator) ==
    IF BothBoolean(self, other) THEN Ok(Boolean(self.b \/ other.b))
    ELSE invalid_binary(self, other, operator)
\* Value::equals has no Boolean arm; Value::not_equals has one.
equals(self, other, operator) ==
    IF BothInteger(self, other) THEN Ok(Boolean(self.i = other.i))
    ELSE IF BothFloat(self, other) THEN Ok(Boolean(self = other))
    ELSE invalid_binary(self, other, operator)
not_equals(self, other, operator) ==
    IF BothInteger(self, other) THEN Ok(Boolean(self.i # other.i))
    ELSE IF BothFloat(self, other) THEN Ok(Boolean(self # other))
    ELSE IF BothBoolean(self, other) THEN Ok(Boolean(self.b # other.b))
    ELSE invalid_binary(self, other, operator)
greater(self, other, operator) ==
    IF BothInteger(self, other) THEN Ok(Boolean(self.i > other.i))
    ELSE IF BothFloat(self, other) THEN Ok(Boolean(FLess(other, self)))
    ELSE invalid_binary(self, other, operator)
greater_eq(self, other, operator) ==
    IF BothInteger(self, other) THEN Ok(Boolean(self.i >= other.i))
    ELSE IF BothFloat(self, other) THEN Ok(Boolean(~FLess(self, other)))
    ELSE invalid_binary(self, other, operator)
less_than(self, other, operator) ==
    IF BothInteger(self, other) THEN Ok(Boolean(self.i < other.i))
    ELSE IF BothFloat(self, other) THEN Ok(Boolean(FLess(self, other)))
    ELSE invalid_binary(self, other, operator)
less_than_eq(self, other, operator) ==
    IF BothInteger(self, other) THEN Ok(Boolean(self.i <= other.i))
    ELSE IF BothFloat(self, other) THEN Ok(Boolean(~FLess(other, self)))
    ELSE invalid_binary(self, other, operator)

\* Value::binary_operation: self is the left operand.
binary_operation(self, other, operator) ==
    CASE operator = "Add" -> add(self, other, operator)
      [] operator = "Sub" -> sub(self, other, operator)
      [] operator = "Mul" -> mul(self, other, operator)
      [] operator = "Div" -> div(self, other, operator)
      [] operator = "Mod" -> modulo(self, other, operator)
      [] operator = "Pow" -> pow(self, other, operator)
      [] operator = "And" -> and(self, other, operator)
      [] operator = "Or" -> or(self, other, operator)
      [] operator = "Equals" -> equals(self, other, operator)
      [] operator = "NotEquals" -> not_equals(self, other, operator)
      [] operator = "Greater" -> greater(self, other, operator)
      [] operator = "GreaterEq" -> greater_eq(self, other, operator)
      [] operator = "LessThan" -> less_than(self, other, operator)
      [] operator = "LessThanEq" -> less_than_eq(self, other, operator)
      [] OTHER -> Panic("internal error: entered unreachable code")

uadd(self, operator) ==
    IF self.t \in {"Integer", "Float"} THEN Ok(self)
    ELSE invalid_unary(self, operator)
usub(self, operator) ==
    IF self.t = "Integer" THEN Ok(Integer(-self.i))
    ELSE IF self.t = "Float" THEN Ok(Float(-self.n, self.d))
    ELSE invalid_unary(self, operator)
not(self, operator) ==
    IF self.t = "Boolean" THEN Ok(Boolean(~self.b))
    ELSE invalid_unary(self, operator)

\* Value::unary_operation
unary_operation(self, operator) ==
    CASE operator = "Add" -> uadd(self, operator)
      [] operator = "Sub" -> usub(self, operator)
      [] operator = "Not" -> not(self, operator)
      [] OTHER -> Panic("internal error: entered unreachable code")

\* Value::index on a List: a clone of the element, bounds-checked.
OutOfRange(identifier, index) ==
    [kind |-> "IndexOutOfRange", identifier |-> identifier, index |-> index]
index(H, self, idx, identifier) ==
    IF self.t = "List" /\ idx.t = "Integer"
    THEN IF idx.i >= 0 /\ idx.i < Len(H[self.h])
         THEN Ok(H[self.h][idx.i + 1])
         ELSE Err(OutOfRange(identifier, idx))
    ELSE Err(InvalidOperation("Index", <<self>>, idx))

\* Value::list_assign on a List: writes the element in place through the
\* shared handle, bounds-checked; the statement's value is None. The heap
\* after the call is ListAssignHeap.
list_assign(H, self, idx, value, identifier) ==
    IF self.t = "List" /\ idx.t = "Integer"
    THEN IF idx.i >= 0 /\ idx.i < Len(H[self.h])
         THEN Ok(None)
         ELSE Err(OutOfRange(identifier, idx))
    ELSE Err(InvalidOperation("ListAssign", <<self>>, idx))
ListAssignHeap(H, self, idx, value) ==
    IF self.t = "List" /\ idx.t = "Integer"
       /\ idx.i >= 0 /\ idx.i < Len(H[self.h])
    THEN [H EXCEPT ![self.h] = [@ EXCEPT ![idx.i + 1] = value]]
    ELSE H

\* The native functions of builtins.rs that return without reading input
\* or making a String: print and println write and return None; with a
\* number of values other than one they reach `todo!()`.
BuiltinApply(name, values) ==
    CASE name \in {"print", "println"} ->
           IF Len(values) # 1 THEN Panic("not yet implemented")
           ELSE Ok(None)

(* --------------------------- the evaluator ---------------------------- *)

\* One evaluate() invocation: the node, the Results of the children it has
\* evaluated so far (hist, each with the child's role and node), the role
\* of the child it waits for, and the symbol table and heap it started from.
Frame(node, T, H) ==
    [node |-> node, hist |-> <<>>, wait |-> "", t0 |-> T, h0 |-> H]

\* What one step of an invocation does: evaluate a child, return, or panic.
CallChild(child, role, T, H) ==
    [op |-> "call", child |-> child, role |-> role, tables |-> T, heap |-> H]
Ret(r, T, H) == [op |-> "ret", r |-> r, tables |-> T, heap |-> H]
Abort(msg) == [op |-> "panic", msg |-> msg]

Last(f) == f.hist[Len(f.hist)]
\* `evaluate(child)?` has just failed.
Failed(f) == Len(f.hist) > 0 /\ Last(f).r.st = "Err"
\* The value of the child with that role (the latest one).
ValueOf(f, role) ==
    LET is == {i \in 1..Len(f.hist) : f.hist[i].c = role}
    IN f.hist[CHOOSE i \in is : \A j \in is : j <= i].r.v
Has(f, role) == \E i \in 1..Len(f.hist) : f.hist[i].c = role

\* A Result of a value operation, returned or panicking.
RetOp(r, T, H) == IF r.st = "Panic" THEN Abort(r.msg) ELSE Ret(r, T, H)

\* Evaluator::eval_atom
eval_atom(f, T, H) ==
    IF f.node.value.kind \in {"Integer", "Float", "Boolean"}
    THEN Ret(Ok(ValueFrom(f.node.value)), T, H)
    ELSE Abort("internal error: entered unreachable code")

\* Evaluator::eval_list: the elements in order, then a fresh Rc.
eval_list(f, T, H) ==
    LET n == Len(f.hist)
    IN IF Failed(f) THEN Ret(Last(f).r, T, H)
       ELSE IF n < Len(f.node.values)
       THEN CallChild(f.node.values[n + 1], "element", T, H)
       ELSE Ret(Ok(List(Len(H) + 1)), T,
                Append(H, [i \in 1..n |-> f.hist[i].r.v]))

\* eval_binary_op evaluating the left operand first and leaving the right
\* one out when the left one decides an `and` or an `or`.
eval_binary_op_short_circuits(f, T, H) ==
    IF Failed(f) THEN Ret(Last(f).r, T, H)
    ELSE IF ~Has(f, "left") THEN CallChild(f.node.left, "left", T, H)
    ELSE IF /\ f.node.operator = "And"
            /\ ValueOf(f, "left") = Boolean(FALSE)
    THEN Ret(Ok(Boolean(FALSE)), T, H)
    ELSE IF /\ f.node.operator = "Or"
            /\ ValueOf(f, "left") = Boolean(TRUE)
    THEN Ret(Ok(Boolean(TRUE)), T, H)
    ELSE IF ~Has(f, "right") THEN CallChild(f.node.right, "right", T, H)
    ELSE RetOp(binary_operation(ValueOf(f, "left"), ValueOf(f, "right"),
                                f.node.operator), T, H)

\* Evaluator::eval_binary_op: right, then left, then the operation.
eval_binary_op(f, T, H) ==
    IF Failed(f) THEN Ret(Last(f).r, T, H)
    ELSE IF ~Has(f, "right") THEN CallChild(f.node.right, "right", T, H)
    ELSE IF ~Has(f, "left") THEN CallChild(f.node.left, "left", T, H)
    ELSE RetOp(binary_operation(ValueOf(f, "left"), ValueOf(f, "right"),
                                f.node.operator), T, H)

\* Evaluator::eval_unary_op
eval_unary_op(f, T, H) ==
    IF Failed(f) THEN Ret(Last(f).r, T, H)
    ELSE IF ~Has(f, "value") THEN CallChild(f.node.value, "value", T, H)
    ELSE RetOp(unary_operation(ValueOf(f, "value"), f.node.operator), T, H)

\* assign declaring an identifier it does not find.
assign_declares_unknown(T, H, name, value, is_declaration) ==
    IF is_declaration \/ FirstTable(T, name) = 0
    THEN Ret(Ok(None), insert(T, name, value), H)
    ELSE Ret(Ok(None), get_mut_set(T, name, value), H)

\* Evaluator::eval_assignment, once the value is there: declare, or
\* replace an existing binding, or fail.
assign(T, H, name, value, is_declaration) ==
    IF is_declaration THEN Ret(Ok(None), insert(T, name, value), H)
    ELSE IF FirstTable(T, name) # 0
    THEN Ret(Ok(None), get_mut_set(T, name, value), H)
    ELSE Ret(Err(UnknownIdentifier(name)), T, H)

\* Evaluator::eval_assignment
eval_assignment(f, T, H) ==
    IF Failed(f) THEN Ret(Last(f).r, T, H)
    ELSE IF ~Has(f, "value") THEN CallChild(f.node.value, "value", T, H)
    ELSE assign(T, H, f.node.identifier, ValueOf(f, "value"),
                f.node.is_declaration)

\* Evaluator::eval_list_assignment: value, then index, then the lookup.
eval_list_assignment(f, T, H) ==
    LET name == f.node.identifier
        list == get(T, name)
    IN IF Failed(f) THEN Ret(Last(f).r, T, H)
       ELSE IF ~Has(f, "value") THEN CallChild(f.node.value, "value", T, H)
       ELSE IF ~Has(f, "index") THEN CallChild(f.node.index, "index", T, H)
       ELSE IF list # <<>>
       THEN Ret(list_assign(H, list[1], ValueOf(f, "index"),
                            ValueOf(f, "value"), name),
                T,
                ListAssignHeap(H, list[1], ValueOf(f, "index"),
                               ValueOf(f, "value")))
       ELSE Ret(Err(UnknownIdentifier(name)), T, H)

\* eval_access handing out a copy of a list's vector (value semantics).
eval_access_copies(f, T, H) ==
    LET value == get(T, f.node.identifier)
    IN IF value # <<>>
       THEN IF value[1].t = "List"
            THEN Ret(Ok(List(Len(H) + 1)), T, Append(H, H[value[1].h]))
            ELSE Ret(Ok(value[1]), T, H)
       ELSE Ret(Err(UnknownIdentifier(f.node.identifier)), T, H)

\* Evaluator::eval_access
eval_access(f, T, H) ==
    LET value == get(T, f.node.identifier)
    IN IF value # <<>> THEN Ret(Ok(value[1]), T, H)
       ELSE Ret(Err(UnknownIdentifier(f.node.identifier)), T, H)

\* Evaluator::eval_index
eval_index(f, T, H) ==
    LET value == get(T, f.node.identifier)
    IN IF Failed(f) THEN Ret(Last(f).r, T, H)
       ELSE IF ~Has(f, "index") THEN CallChild(f.node.index, "index", T, H)
       ELSE IF value # <<>>
       THEN Ret(index(H, value[1], ValueOf(f, "index"), f.node.identifier),
                T, H)
       ELSE Ret(Err(UnknownIdentifier(f.node.identifier)), T, H)

\* eval_program without its `break`: every statement runs.
eval_program_runs_all(f, T, H) ==
    LET n == Len(f.hist)
        value == IF n = 0 THEN None ELSE Last(f).r.v
    IN IF Failed(f) THEN Ret(Last(f).r, T, H)
       ELSE IF n < Len(f.node.statements)
       THEN CallChild(f.node.statements[n + 1], "statement", T, H)
       ELSE Ret(Ok(value), T, H)

\* Evaluator::eval_program: hist holds one Result per statement run, and
\* `value` is the latest.
eval_program(f, T, H) ==
    LET n == Len(f.hist)
        value == IF n = 0 THEN None ELSE Last(f).r.v
    IN IF Failed(f) THEN Ret(Last(f).r, T, H)
       ELSE IF value # None THEN Ret(Ok(value), T, H)
       ELSE IF n < Len(f.node.statements)
       THEN CallChild(f.node.statements[n + 1], "statement", T, H)
       ELSE Ret(Ok(value), T, H)

\* eval_if taking a condition that is no Boolean for false.
eval_if_coerces(f, T, H) ==
    IF Failed(f) THEN Ret(Last(f).r, T, H)
    ELSE IF ~Has(f, "condition")
    THEN CallChild(f.node.condition, "condition", T, H)
    ELSE IF Has(f, "block") THEN Ret(Ok(ValueOf(f, "block")), T, H)
    ELSE IF Has(f, "else_block") THEN Ret(Ok(ValueOf(f, "else_block")), T, H)
    ELSE IF ValueOf(f, "condition") = Boolean(TRUE)
    THEN CallChild(f.node.block, "block", T, H)
    ELSE IF f.node.else_block # <<>>
    THEN CallChild(f.node.else_block[1], "else_block", T, H)
    ELSE Ret(Ok(None), T, H)

\* Evaluator::eval_if
eval_if(f, T, H) ==
    IF Failed(f) THEN Ret(Last(f).r, T, H)
    ELSE IF ~Has(f, "condition")
    THEN CallChild(f.node.condition, "condition", T, H)
    ELSE IF Has(f, "block") THEN Ret(Ok(ValueOf(f, "block")), T, H)
    ELSE IF Has(f, "else_block") THEN Ret(Ok(ValueOf(f, "else_block")), T, H)
    ELSE IF ValueOf(f, "condition") = Boolean(TRUE)
    THEN CallChild(f.node.block, "block", T, H)
    ELSE IF ValueOf(f, "condition") = Boolean(FALSE)
    THEN IF f.node.else_block # <<>>
         THEN CallChild(f.node.else_block[1], "else_block", T, H)
         ELSE Ret(Ok(None), T, H)
    ELSE Ret(Err(InvalidValue(Boolean(FALSE), ValueOf(f, "condition"))), T, H)

\* eval_while testing its condition once, before the first run only.
eval_while_tests_once(f, T, H) ==
    LET value == IF Has(f, "block") THEN ValueOf(f, "block") ELSE None
    IN IF Failed(f) THEN Ret(Last(f).r, T, H)
       ELSE IF Len(f.hist) = 0
       THEN CallChild(f.node.condition, "condition", T, H)
       ELSE IF Last(f).c = "block"
       THEN IF value # None THEN Ret(Ok(value), T, H)
            ELSE CallChild(f.node.block, "block", T, H)
       ELSE IF Last(f).r.v = Boolean(TRUE)
       THEN CallChild(f.node.block, "block", T, H)
       ELSE Ret(Ok(value), T, H)

\* eval_while treating a condition that is no Boolean as eval_if does.
eval_while_requires_boolean(f, T, H) ==
    LET value == IF Has(f, "block") THEN ValueOf(f, "block") ELSE None
    IN IF Failed(f) THEN Ret(Last(f).r, T, H)
       ELSE IF Len(f.hist) = 0
       THEN CallChild(f.node.condition, "condition", T, H)
       ELSE IF Last(f).c = "block"
       THEN IF value # None THEN Ret(Ok(value), T, H)
            ELSE CallChild(f.node.condition, "condition", T, H)
       ELSE IF Last(f).r.v = Boolean(TRUE)
       THEN CallChild(f.node.block, "block", T, H)
       ELSE IF Last(f).r.v = Boolean(FALSE) THEN Ret(Ok(value), T, H)
       ELSE Ret(Err(InvalidValue(Boolean(FALSE), Last(f).r.v)), T, H)

\* Evaluator::eval_while: the condition before every run of the block;
\* `value` is what the latest run of the block gave.
eval_while(f, T, H) ==
    LET value == IF Has(f, "block") THEN ValueOf(f, "block") ELSE None
    IN IF Failed(f) THEN Ret(Last(f).r, T, H)
       ELSE IF Len(f.hist) = 0
       THEN CallChild(f.node.condition, "condition", T, H)
       ELSE IF Last(f).c = "block"
       THEN IF value # None THEN Ret(Ok(value), T, H)
            ELSE CallChild(f.node.condition, "condition", T, H)
       ELSE IF Last(f).r.v = Boolean(TRUE)
       THEN CallChild(f.node.block, "block", T, H)
       ELSE Ret(Ok(value), T, H)

\* Evaluator::eval_func_declaration
eval_func_declaration(f, T, H) ==
    Ret(Ok(None),
        insert(T, f.node.identifier,
               Function(f.node.identifier, f.node.arguments, f.node.body)),
        H)

\* The loop of inserts that binds the arguments of a call.
RECURSIVE InsertAll(_, _, _)
InsertAll(T, arguments, values) ==
    IF arguments = <<>> \/ values = <<>> THEN T
    ELSE InsertAll(insert(T, Head(arguments), Head(values)),
                   Tail(arguments), Tail(values))

\* leave_call written `let result = self.evaluate(&body)?;`: an error of
\* the body returns before unscope.
leave_call_question_mark(T, H, result) ==
    IF result.st = "Err" THEN Ret(result, T, H)
    ELSE IF Len(T) <= 1
    THEN Abort("Internal Error: Tried to drop the main symbol table.")
    ELSE Ret(result, unscope(T), H)

\* Evaluator::eval_func_call, once the body has returned `result`: unscope,
\* then hand the result up, an error too.
leave_call(T, H, result) ==
    IF Len(T) <= 1
    THEN Abort("Internal Error: Tried to drop the main symbol table.")
    ELSE Ret(result, unscope(T), H)

\* An arity check that lets every call through.
arity_unchecked(arguments, parameters) == FALSE

\* Evaluator::eval_func_call: `arguments.len() != parameters.len()`.
arity_differs(arguments, parameters) == Len(arguments) # Len(parameters)

\* Evaluator::eval_func_call: the parameters in the caller's tables, the
\* lookup, the arity check, then scope / bind / body / unscope.
eval_func_call(f, T, H) ==
    LET n == Len(f.hist)
        parameters == f.node.parameters
        values == [i \in 1..n |-> f.hist[i].r.v]
        callee == get(T, f.node.identifier)
    IN IF n > 0 /\ Last(f).c = "body"
       THEN leave_call(T, H, Last(f).r)
       ELSE IF Failed(f) THEN Ret(Last(f).r, T, H)
       ELSE IF n < Len(parameters)
       THEN CallChild(parameters[n + 1], "parameter", T, H)
       ELSE IF callee # <<>> /\ callee[1].t = "Function"
       THEN IF arity_differs(callee[1].arguments, parameters)
            THEN Ret(Err(IncorrectParameters(callee[1].name,
                             f.node.identifier, callee[1].arguments, values)),
                     T, H)
            ELSE CallChild(callee[1].body, "body",
                           InsertAll(scope(T), callee[1].arguments, values), H)
       ELSE IF callee # <<>> /\ callee[1].t = "BuiltInFunction"
       THEN IF arity_differs(callee[1].arguments, parameters)
            THEN Ret(Err(IncorrectParameters(callee[1].name,
                             f.node.identifier, callee[1].arguments, values)),
                     T, H)
            ELSE IF BuiltinApply(callee[1].name, values).st = "Panic"
            THEN Abort(BuiltinApply(callee[1].name, values).msg)
            ELSE Ret(BuiltinApply(callee[1].name, values), T, H)
       ELSE Ret(Err(UnknownIdentifier(f.node.identifier)), T, H)

\* Evaluator::eval_return
eval_return(f, T, H) ==
    IF ~Has(f, "value") THEN CallChild(f.node.value, "value", T, H)
    ELSE Ret(Last(f).r, T, H)

(* ---------------------------- the programs ---------------------------- *)

IntLit(n) == Atom([kind |-> "Integer", v |-> n])
BoolLit(b) == Atom([kind |-> "Boolean", v |-> b])
Let(identifier, value) == Assignment(identifier, value, TRUE)
Set(identifier, value) == Assignment(identifier, value, FALSE)
Block(statements) == Program(statements)
Lt(left, right) == BinaryOp(left, "LessThan", right)
Plus(left, right) == BinaryOp(left, "Add", right)
Minus(left, right) == BinaryOp(left, "Sub", right)

\* Bodies of `let f(x) => { ... }`.
FBodies == {
    \* return x
    Block(<<Return(Access("x"))>>),
    \* x = x + 1; return x
    Block(<<Set("x", Plus(Access("x"), IntLit(1))), Return(Access("x"))>>),
    \* if x < 5 { return 0 }; return f(x - 1)
    Block(<<If(Lt(Access("x"), IntLit(5)), Block(<<Return(IntLit(0))>>), <<>>),
            Return(FuncCall("f", <<Minus(Access("x"), IntLit(1))>>))>>)
}

\* Bodies of `let g() => { ... }`.
GBodies == {
    \* x = 2
    Block(<<Set("x", IntLit(2))>>),
    \* let y = 7
    Block(<<Let("y", IntLit(7))>>),
    \* return print(1); x = 9
    Block(<<Return(FuncCall("print", <<IntLit(1)>>)), Set("x", IntLit(9))>>),
    \* if x < 2 { return 10 }; x = 0; return 20
    Block(<<If(Lt(Access("x"), IntLit(2)), Block(<<Return(IntLit(10))>>), <<>>),
            Set("x", IntLit(0)), Return(IntLit(20))>>),
    \* while x < 3 { x = x + 1; if 2 < x { return x } }; x = 0
    Block(<<While(Lt(Access("x"), IntLit(3)),
                  Block(<<Set("x", Plus(Access("x"), IntLit(1))),
                          If(Lt(IntLit(2), Access("x")),
                             Block(<<Return(Access("x"))>>), <<>>)>>)),
            Set("x", IntLit(0))>>),
    \* let y = f(a); return y
    Block(<<Let("y", FuncCall("f", <<Access("a")>>)), Return(Access("y"))>>)
}

\* The statements a REPL line may hold.
Statements ==
    {
      Let("x", IntLit(1)),
      Set("x", IntLit(2)),
      \* let a = [1, -2]
      Let("a", ListNode(<<IntLit(1), UnaryOp("Sub", IntLit(2))>>)),
      Let("b", Access("a")),
      ListAssignment("b", IntLit(0), IntLit(9)),
      \* a[1] = b[0]
      ListAssignment("a", IntLit(1), Index("b", IntLit(0))),
      FuncCall("f", <<IntLit(5)>>),
      FuncCall("f", <<>>),
      FuncCall("g", <<>>),
      FuncCall("g", <<IntLit(1)>>),
      FuncCall("print", <<>>),
      FuncCall("print", <<Access("x")>>),
      \* if x < 2 { let y = 1 }
      If(Lt(Access("x"), IntLit(2)), Block(<<Let("y", IntLit(1))>>), <<>>),
      \* if x < 2 { let y = 1 } else { let y = 2 }
      If(Lt(Access("x"), IntLit(2)), Block(<<Let("y", IntLit(1))>>),
         <<Block(<<Let("y", IntLit(2))>>)>>),
      \* if x { let y = 1 } else { let y = 2 }
      If(Access("x"), Block(<<Let("y", IntLit(1))>>),
         <<Block(<<Let("y", IntLit(2))>>)>>),
      \* while x < 3 { x = x + 1 }
      While(Lt(Access("x"), IntLit(3)),
            Block(<<Set("x", Plus(Access("x"), IntLit(1)))>>)),
      \* while x { x = 2 }
      While(Access("x"), Block(<<Set("x", IntLit(2))>>)),
      \* let x = 1 < 2
      Let("x", Lt(IntLit(1), IntLit(2))),
      \* let y = false and g()
      Let("y", BinaryOp(BoolLit(FALSE), "And", FuncCall("g", <<>>))),
      \* let y = g() or z
      Let("y", BinaryOp(FuncCall("g", <<>>), "Or", Access("z"))),
      \* let y = true or 1 < x
      Let("y", BinaryOp(BoolLit(TRUE), "Or", Lt(IntLit(1), Access("x"))))
    }
    \cup {FuncDeclearion("f", <<"x">>, body) : body \in FBodies}
    \cup {FuncDeclearion("g", <<>>, body) : body \in GBodies}

\* Parser::parse returns a Program; here a line holds one statement.
Lines == {Program(<<s>>) : s \in Statements}

(* ---------------------------- the machine ----------------------------- *)

\* `done` when no invocation has just returned.
NoDone == [node |-> [k |-> "-"], hist |-> <<>>, t0 |-> <<>>, h0 |-> <<>>,
           t1 |-> <<>>, h1 |-> <<>>, r |-> Pending]

\* The body of a user function is being evaluated.
InFunction ==
    \E i \in 1..Len(stack) :
        stack[i].node.k = "FuncCall" /\ stack[i].wait = "body"

Top == stack[Len(stack)]
Front(s) == SubSeq(s, 1, Len(s) - 1)

\* The innermost invocation, with the Result its child just handed up.
Cur ==
    IF res.st = "Pending" THEN Top
    ELSE [Top EXCEPT !.hist = Append(@, [c |-> Top.wait, n |-> done.node,
                                         r |-> res])]

Running(k) ==
    /\ stack # <<>>
    /\ res.st # "Panic"
    /\ steps < MaxSteps
    /\ Top.node.k = k

\* The step `out` of the innermost invocation f.
Apply(f, out) ==
    /\ out.op = "call" => Len(stack) < MaxDepth
    /\ steps' = steps + 1
    /\ lines' = lines
    /\ tables' = IF out.op = "panic" THEN tables ELSE out.tables
    /\ heap' = IF out.op = "panic" THEN heap ELSE out.heap
    /\ stack' =
         CASE out.op = "call" ->
                Append(Append(Front(stack), [f EXCEPT !.wait = out.role]),
                       Frame(out.child, out.tables, out.heap))
           [] out.op = "ret" -> Front(stack)
           [] out.op = "panic" -> stack
    /\ res' =
         CASE out.op = "call" -> Pending
           [] out.op = "ret" -> out.r
           [] out.op = "panic" -> Panic(out.msg)
    /\ done' =
         IF out.op = "ret"
         THEN [node |-> f.node, hist |-> f.hist, t0 |-> f.t0, h0 |-> f.h0,
               t1 |-> tables, h1 |-> heap, r |-> out.r]
         ELSE NoDone
    /\ returning' =
         IF out.op = "ret" /\ f.node.k = "Return" /\ out.r.st = "Ok"
            /\ InFunction
         THEN <<out.r.v>>
         ELSE IF out.op = "ret" /\ f.node.k \in {"Program", "If", "While"}
         THEN returning
         ELSE <<>>
    /\ UNCHANGED <<frontVars, valueVars>>

EvalAtom == Running("Atom") /\ Apply(Cur, eval_atom(Cur, tables, heap))
EvalList == Running("List") /\ Apply(Cur, eval_list(Cur, tables, heap))
EvalBinaryOp ==
    Running("BinaryOp") /\ Apply(Cur, eval_binary_op(Cur, tables, heap))
EvalUnaryOp ==
    Running("UnaryOp") /\ Apply(Cur, eval_unary_op(Cur, tables, heap))
EvalAssignment ==
    Running("Assignment") /\ Apply(Cur, eval_assignment(Cur, tables, heap))
EvalListAssignment ==
    /\ Running("ListAssignment")
    /\ Apply(Cur, eval_list_assignment(Cur, tables, heap))
EvalAccess == Running("Access") /\ Apply(Cur, eval_access(Cur, tables, heap))
EvalIndex == Running("Index") /\ Apply(Cur, eval_index(Cur, tables, heap))
EvalProgram ==
    Running("Program") /\ Apply(Cur, eval_program(Cur, tables, heap))
EvalIf == Running("If") /\ Apply(Cur, eval_if(Cur, tables, heap))
EvalWhile == Running("While") /\ Apply(Cur, eval_while(Cur, tables, heap))
EvalFuncDeclaration ==
    /\ Running("FuncDeclearion")
    /\ Apply(Cur, eval_func_declaration(Cur, tables, heap))
EvalFuncCall ==
    Running("FuncCall") /\ Apply(Cur, eval_func_call(Cur, tables, heap))
EvalReturn == Running("Return") /\ Apply(Cur, eval_return(Cur, tables, heap))

\* The REPL of main.rs (console): one line is parsed and evaluated by the
\* Evaluator that lives across lines.
ReadLine ==
    /\ stack = <<>>
    /\ res.st = "Pending"
    /\ lines < MaxLines
    /\ \E program \in Lines :
         stack' = <<Frame(program, tables, heap)>>
    /\ lines' = lines + 1
    /\ steps' = 0
    /\ UNCHANGED <<tables, heap, res, done, returning>>
    /\ UNCHANGED <<frontVars, valueVars>>

\* mono::evaluator reports the line's Ok value or error; the REPL loops.
Report ==
    /\ stack = <<>>
    /\ res.st \in {"Ok", "Err"}
    /\ res' = Pending
    /\ done' = NoDone
    /\ steps' = 0
    /\ UNCHANGED <<tables, heap, stack, lines, returning>>
    /\ UNCHANGED <<frontVars, valueVars>>

\* Evaluator::new, before a line is read.
EvaluatorNew ==
    /\ tables = add_builtins(SymbolTableNew)
    /\ heap = <<>>
    /\ stack = <<>>
    /\ res = Pending
    /\ done = NoDone
    /\ returning = <<>>
    /\ lines = 0
    /\ steps = 0

\* No source text is being tokenized or parsed.
FrontIdle ==
    /\ input = <<>>
    /\ tokenizer = <<>>
    /\ yielded = <<>>
    /\ mark = 0
    /\ peeked = NoPeek
    /\ remaining = <<>>
    /\ ast = Pending

\* No single operation is being applied.
ValueIdle ==
    /\ operation = <<>>
    /\ outcome = Pending

Init == EvaluatorNew /\ FrontIdle /\ ValueIdle

Next ==
    \/ ReadLine
    \/ Report
    \/ EvalAtom
    \/ EvalList
    \/ EvalBinaryOp
    \/ EvalUnaryOp
    \/ EvalAssignment
    \/ EvalListAssignment
    \/ EvalAccess
    \/ EvalIndex
    \/ EvalProgram
    \/ EvalIf
    \/ EvalWhile
    \/ EvalFuncDeclaration
    \/ EvalFuncCall
    \/ EvalReturn

Spec == Init /\ [][Next]_vars

(* ============================== claims ================================ *)

Identifiers == {"x", "y", "a", "b", "f", "g"}

\* The user-function calls that have pushed their scope and not yet popped
\* it.
ActiveCalls ==
    {i \in 1..Len(stack) :
        stack[i].node.k = "FuncCall" /\ stack[i].wait = "body"}

\* `done` is a call of a user function whose body was evaluated.
CallReturned ==
    /\ done.node.k = "FuncCall"
    /\ done.hist # <<>>
    /\ done.hist[Len(done.hist)].c = "body"

\* The function a returned call called.
Callee == get(done.t0, done.node.identifier)[1]

(* C1: every user-function call pushes exactly one scope before its body   *)
(* is evaluated and pops exactly one afterwards, on a value and on a       *)
(* runtime error alike: when eval_func_call returns, the number of tables  *)
(* is what it was when the call began; the number of tables is one more    *)
(* than the number of calls whose body is running, so never below 1, and   *)
(* unscope's panic is never reached.                                       *)
C1_ScopeBalanced ==
    /\ Len(tables) >= 1
    /\ res.st # "Panic"
    /\ \A i \in ActiveCalls :
         i < Len(stack) => Len(stack[i + 1].t0) = Len(stack[i].t0) + 1
    /\ Len(tables) = 1 + Cardinality(ActiveCalls)
    /\ done.node.k = "FuncCall" => Len(tables) = Len(done.t0)

\* A nested call whose body failed has returned its error.
C1_Witness ==
    /\ CallReturned
    /\ done.r.st = "Err"
    /\ ActiveCalls # {}
    /\ Len(tables) = Len(done.t0)

(* C2: with x bound in the global scope, a call of a user function whose   *)
(* parameter is named x reads the argument as x inside the body, and after *)
(* the call x reads as it did before the call.                             *)
C2_ParameterConfined ==
    /\ \A i \in ActiveCalls :
         LET callee == get(stack[i].t0, stack[i].node.identifier)[1]
         IN i < Len(stack) =>
              \A j \in 1..Len(callee.arguments) :
                 get(stack[i + 1].t0, callee.arguments[j])
                   = <<stack[i].hist[j].r.v>>
    /\ CallReturned =>
         \A j \in 1..Len(Callee.arguments) :
            LET x == Callee.arguments[j]
            IN x \in DOMAIN done.t0[1] =>
                 get(tables, x) = get(done.t0, x)

\* `let x = 1`, `let f(x) => { return x }`, `f(5)`: x is 5 after the call.
C2_Witness ==
    /\ CallReturned
    /\ Callee.arguments = <<"x">>
    /\ done.hist[1].r = Ok(Integer(5))
    /\ get(done.t0, "x") = <<Integer(1)>>
    /\ get(tables, "x") = <<Integer(5)>>

(* C3: insert after scope() writes the innermost table; after the matching *)
(* unscope() every binding made since the scope() is gone, so a `let` in a *)
(* function body is not visible once the call has returned.                *)
C3_ScopedBindings ==
    /\ done.node.k = "Assignment" /\ done.node.is_declaration
       /\ done.r.st = "Ok" =>
         /\ done.node.identifier \in DOMAIN tables[Len(tables)]
         /\ \A i \in 1..(Len(tables) - 1) : tables[i] = done.t1[i]
    /\ CallReturned =>
         \A id \in Identifiers :
            get(done.t0, id) = <<>> => get(tables, id) = <<>>

\* `let g() => { let y = 7 }`, `g()`: y is bound after the call.
C3_Witness ==
    /\ CallReturned
    /\ Len(tables) = 1
    /\ get(done.t0, "y") = <<>>
    /\ get(tables, "y") = <<Integer(7)>>

\* The tables that bind the identifier.
Binders(T, id) == {i \in 1..Len(T) : id \in DOMAIN T[i]}
\* The identifiers bound somewhere.
Bound(T) == UNION {DOMAIN T[i] : i \in 1..Len(T)}
\* `done` is a statement `id = e` whose value e has been evaluated.
SetReturned ==
    /\ done.node.k = "Assignment"
    /\ ~done.node.is_declaration
    /\ done.hist # <<>>
    /\ done.hist[Len(done.hist)].r.st = "Ok"
\* A function whose body is the one statement `id = literal`, id not a
\* parameter.
SimpleSetter(fn) ==
    /\ Len(fn.body.statements) = 1
    /\ fn.body.statements[1].k = "Assignment"
    /\ ~fn.body.statements[1].is_declaration
    /\ fn.body.statements[1].value.k = "Atom"
    /\ \A j \in 1..Len(fn.arguments) :
         fn.arguments[j] # fn.body.statements[1].identifier

(* C4: `x = e` in a function body, x bound only in an outer scope, replaces *)
(* that binding's value in place and makes no new binding; after the call  *)
(* returns, x reads as the value of e in the caller.                       *)
C4_OuterAssignment ==
    /\ SetReturned /\ Len(done.t1) > 1
       /\ Cardinality(Binders(done.t1, done.node.identifier)) = 1
       /\ done.node.identifier \notin DOMAIN done.t1[Len(done.t1)] =>
         LET id == done.node.identifier
             i == FirstTable(done.t1, id)
         IN /\ done.r = Ok(None)
            /\ Len(tables) = Len(done.t1)
            /\ tables[i][id] = done.hist[Len(done.hist)].r.v
            /\ \A j \in 1..Len(tables) :
                 /\ DOMAIN tables[j] = DOMAIN done.t1[j]
                 /\ \A k \in DOMAIN tables[j] :
                      <<j, k>> # <<i, id>> => tables[j][k] = done.t1[j][k]
    /\ CallReturned /\ SimpleSetter(Callee)
       /\ get(done.t0, Callee.body.statements[1].identifier) # <<>> =>
         /\ get(tables, Callee.body.statements[1].identifier)
              = <<ValueFrom(Callee.body.statements[1].value.value)>>
         /\ Bound(tables) = Bound(done.t0)

\* `let x = 1`, a function doing `x = 2`, the call: x is 2.
C4_Witness ==
    /\ CallReturned
    /\ SimpleSetter(Callee)
    /\ get(done.t0, "x") = <<Integer(1)>>
    /\ get(tables, "x") = <<Integer(2)>>

(* C5: `x = e` with x bound in no scope fails with UnknownIdentifier once e *)
(* has been evaluated, and binds nothing: the tables are those the         *)
(* assignment found, and a read of x still fails with UnknownIdentifier.   *)
C5_UnknownAssignment ==
    SetReturned /\ Binders(done.t1, done.node.identifier) = {} =>
        LET id == done.node.identifier
        IN /\ done.r = Err(UnknownIdentifier(id))
           /\ tables = done.t1
           /\ heap = done.h1
           /\ eval_access(Frame(Access(id), tables, heap), tables, heap).r
                = Err(UnknownIdentifier(id))

\* `x = 2` with no x, in the body of a function.
C5_Witness ==
    /\ SetReturned
    /\ done.r = Err(UnknownIdentifier("x"))
    /\ Len(tables) > 1
    /\ "x" \notin Bound(tables)

IsList(o) == o # <<>> /\ o[1].t = "List"

(* C6: after `let b = a` with a bound to a List, a and b are the same      *)
(* storage, and an in-range indexed assignment through one name is what    *)
(* indexing through any name of that storage then reads.                   *)
C6_ListAliasing ==
    /\ done.node.k = "Assignment" /\ done.node.is_declaration
       /\ done.node.value.k = "Access" /\ done.r.st = "Ok"
       /\ IsList(get(done.t1, done.node.value.identifier)) =>
         /\ get(tables, done.node.identifier)
              = get(tables, done.node.value.identifier)
         /\ heap = done.h0
    /\ done.node.k = "ListAssignment" /\ done.r.st = "Ok" =>
         LET target == get(done.t1, done.node.identifier)[1]
             idx == done.hist[2].r.v
             value == done.hist[1].r.v
         IN \A id \in Identifiers :
              IsList(get(tables, id)) /\ get(tables, id)[1].h = target.h =>
                 index(heap, get(tables, id)[1], idx, id) = Ok(value)

\* `let a = [1, -2]`, `let b = a`, `b[0] = 9`: a[0] is 9.
C6_Witness ==
    /\ done.node = ListAssignment("b", IntLit(0), IntLit(9))
    /\ done.r.st = "Ok"
    /\ get(tables, "a") = get(tables, "b")
    /\ index(heap, get(tables, "a")[1], Integer(0), "a") = Ok(Integer(9))
    /\ index(done.h1, get(tables, "a")[1], Integer(0), "a") = Ok(Integer(1))

(* C7: a Program runs its statements in source order and stops at the      *)
(* first whose value is not None, which is the block's result, no later    *)
(* statement being evaluated; if every statement gives None all of them    *)
(* run and the result is None; an error of a statement is the block's.     *)
C7_ProgramStopsAtFirstValue ==
    done.node.k = "Program" =>
        LET S == done.node.statements
            h == done.hist
            n == Len(h)
        IN /\ n <= Len(S)
           /\ \A i \in 1..n : h[i].c = "statement" /\ h[i].n = S[i]
           /\ \A i \in 1..(n - 1) : h[i].r = Ok(None)
           /\ IF n = 0 THEN S = <<>> /\ done.r = Ok(None)
              ELSE IF h[n].r = Ok(None)
              THEN n = Len(S) /\ done.r = Ok(None)
              ELSE done.r = h[n].r

\* A block left with a value before its last statement.
C7_Witness ==
    /\ done.node.k = "Program"
    /\ Len(done.hist) < Len(done.node.statements)
    /\ done.r.st = "Ok"
    /\ done.r.v # None

(* C8, as claimed: once `return e` has been executed in a function body,   *)
(* every step up to the return of the function call leaves an enclosing    *)
(* block with the value of e (no further statement is evaluated), and the  *)
(* call's result is the value of e.                                        *)
C8_ReturnUnwinds_AnyValue ==
    [][returning # <<>> =>
         stack' = Front(stack) /\ res' = Ok(returning[1])]_vars

\* `return print(1); x = 9`: the statement after the return has run.
C8_Witness ==
    /\ InFunction
    /\ done.node = Set("x", IntLit(9))
    /\ done.r = Ok(None)
    /\ get(done.t1, "x") = <<Integer(1)>>
    /\ get(tables, "x") = <<Integer(9)>>

(* C8 for values: a `return e` whose e evaluates to a value other than     *)
(* None is unwound as claimed.                                             *)
C8_ReturnUnwinds_Value ==
    [][returning # <<>> /\ returning[1] # None =>
         stack' = Front(stack) /\ res' = Ok(returning[1])]_vars

(* C9: a while loop evaluates its condition before every run of the block  *)
(* and runs the block only on Boolean(true); the first run of the block    *)
(* with a value other than None ends the loop with that value; a loop      *)
(* ended by its condition gives None.                                      *)
C9_WhileLoop ==
    done.node.k = "While" =>
        LET h == done.hist
            n == Len(h)
        IN /\ n >= 1
           /\ \A i \in 1..n :
                IF i % 2 = 1
                THEN h[i].c = "condition" /\ h[i].n = done.node.condition
                ELSE h[i].c = "block" /\ h[i].n = done.node.block
           /\ \A i \in 1..(n - 1) :
                IF i % 2 = 1 THEN h[i].r = Ok(Boolean(TRUE))
                ELSE h[i].r = Ok(None)
           /\ IF h[n].r.st = "Err" THEN done.r = h[n].r
              ELSE IF n % 2 = 0 THEN h[n].r.v # None /\ done.r = h[n].r
              ELSE h[n].r.v # Boolean(TRUE) /\ done.r = Ok(None)

\* A loop ended by the value of its second run.
C9_Witness ==
    /\ done.node.k = "While"
    /\ Len(done.hist) = 4
    /\ done.r.st = "Ok"
    /\ done.r.v # None

(* C10: an `if` whose condition is no Boolean fails with InvalidValue and  *)
(* evaluates neither branch; on Boolean(true) only the then-block is       *)
(* evaluated, on Boolean(false) only the else-block, and on Boolean(false) *)
(* with no else-block the result is None.                                  *)
C10_IfCondition ==
    done.node.k = "If" /\ done.hist # <<>> /\ done.hist[1].r.st = "Ok" =>
        LET h == done.hist
            c == h[1].r.v
            else_block == done.node.else_block
        IN /\ h[1].c = "condition"
           /\ CASE c = Boolean(TRUE) ->
                    /\ Len(h) = 2
                    /\ h[2].c = "block" /\ h[2].n = done.node.block
                    /\ done.r = h[2].r
                [] c = Boolean(FALSE) /\ else_block # <<>> ->
                    /\ Len(h) = 2
                    /\ h[2].c = "else_block" /\ h[2].n = else_block[1]
                    /\ done.r = h[2].r
                [] c = Boolean(FALSE) /\ else_block = <<>> ->
                    Len(h) = 1 /\ done.r = Ok(None)
                [] OTHER ->
                    /\ Len(h) = 1
                    /\ done.r = Err(InvalidValue(Boolean(FALSE), c))

\* `if x { ... } else { ... }` with x an Integer.
C10_Witness ==
    /\ done.node.k = "If"
    /\ done.node.else_block # <<>>
    /\ Len(done.hist) = 1
    /\ done.hist[1].r.st = "Ok"
    /\ done.hist[1].r.v.t = "Integer"
    /\ done.r.st = "Err"
    /\ done.r.e.kind = "InvalidValue"

\* `done` is a call that returned once its parameters had their values,
\* with no body evaluated; `callee` is what the lookup found.
ReturnedAtLookup ==
    /\ done.node.k = "FuncCall"
    /\ Len(done.hist) = Len(done.node.parameters)
    /\ \A i \in 1..Len(done.hist) : done.hist[i].r.st = "Ok"

(* C11: a call of a user function or of a built-in with a number of         *)
(* arguments other than its number of parameters fails with                *)
(* IncorrectParameters carrying the function's name, the call's token, the *)
(* parameter names expected and the values supplied; no scope is pushed,   *)
(* and neither a body nor a native function runs on such a call.           *)
C11_IncorrectParameters ==
    /\ ReturnedAtLookup =>
         LET callee == get(done.t1, done.node.identifier)
             values == [i \in 1..Len(done.hist) |-> done.hist[i].r.v]
         IN callee # <<>> /\ callee[1].t \in {"Function", "BuiltInFunction"}
            /\ Len(callee[1].arguments) # Len(done.node.parameters) =>
              /\ done.r = Err(IncorrectParameters(callee[1].name,
                                  done.node.identifier, callee[1].arguments,
                                  values))
              /\ Len(done.r.e.expected) = Len(callee[1].arguments)
              /\ Len(done.r.e.found) = Len(done.node.parameters)
              /\ tables = done.t1
              /\ heap = done.h1
    /\ CallReturned => Len(Callee.arguments) = Len(done.node.parameters)
    /\ \A i \in ActiveCalls :
         LET callee == get(stack[i].t0, stack[i].node.identifier)[1]
         IN Len(callee.arguments) = Len(stack[i].node.parameters)
    /\ res.st # "Panic"

\* `g(1)` with g of no parameter: expected of length 0, found of length 1.
C11_Witness ==
    /\ done.node = FuncCall("g", <<IntLit(1)>>)
    /\ done.r.st = "Err"
    /\ done.r.e.kind = "IncorrectParameters"
    /\ done.r.e.name = "g"
    /\ done.r.e.expected = <<>>
    /\ done.r.e.found = <<Integer(1)>>
    /\ Len(tables) = 1

\* The child evaluated i-th by the returned invocation is `node`, in `role`.
EvaluatedAs(i, role, node) ==
    /\ Len(done.hist) >= i
    /\ done.hist[i].c = role
    /\ done.hist[i].n = node

(* C28: `and` and `or` do not short-circuit: every binary operation has    *)
(* both its operands evaluated, the right one first and then the left one, *)
(* before the operator is applied, and when the right operand fails its    *)
(* error is the one returned.                                              *)
C28_BothOperandsEvaluated ==
    done.node.k = "BinaryOp" =>
        /\ Len(done.hist) = 2
        /\ EvaluatedAs(1, "right", done.node.right)
        /\ EvaluatedAs(2, "left", done.node.left)
        /\ done.hist[1].r.st = "Err" => done.r = done.hist[1].r

(* C28 as the code has it: the right operand is evaluated first; if it     *)
(* fails, its error is returned and the left operand is not evaluated;     *)
(* otherwise the left operand is evaluated whatever the right one gave,    *)
(* its error is returned if it fails, and the operator is applied to the   *)
(* two values if it does not.                                              *)
C28_RightThenLeft ==
    done.node.k = "BinaryOp" =>
        LET h == done.hist
        IN /\ EvaluatedAs(1, "right", done.node.right)
           /\ IF h[1].r.st = "Err"
              THEN Len(h) = 1 /\ done.r = h[1].r
              ELSE /\ Len(h) = 2
                   /\ EvaluatedAs(2, "left", done.node.left)
                   /\ IF h[2].r.st = "Err" THEN done.r = h[2].r
                      ELSE done.r = binary_operation(h[2].r.v, h[1].r.v,
                                                     done.node.operator)

\* `false and g()` with g's body `x = 2`: g has run and has set x.
C28_Witness ==
    /\ done.node = BinaryOp(BoolLit(FALSE), "And", FuncCall("g", <<>>))
    /\ Len(done.hist) = 2
    /\ done.hist[1].r = Ok(None)
    /\ done.hist[2].r = Ok(Boolean(FALSE))
    /\ get(done.t0, "x") = <<Integer(1)>>
    /\ get(done.t1, "x") = <<Integer(2)>>

\* `g() or z` with g declared and z not: the call of g is not evaluated.
C28_LeftSkipped ==
    /\ done.node = BinaryOp(FuncCall("g", <<>>), "Or", Access("z"))
    /\ get(done.t0, "g") # <<>>
    /\ Len(done.hist) = 1
    /\ done.r = Err(UnknownIdentifier("z"))

\* The i-th child of the returned invocation was its condition, and it
\* gave a value that is no Boolean.
NonBooleanCondition(i) ==
    /\ done.hist[i].c = "condition"
    /\ done.hist[i].r.st = "Ok"
    /\ done.hist[i].r.v.t # "Boolean"

(* C29: a while loop whose condition gives a value that is no Boolean, on  *)
(* the first or on a later evaluation, ends there with None and without a  *)
(* runtime error, the block not being run again; an `if` with such a       *)
(* condition fails with InvalidValue.                                      *)
C29_WhileNonBooleanCondition ==
    /\ done.node.k = "While" =>
         \A i \in 1..Len(done.hist) :
             NonBooleanCondition(i) =>
                 i = Len(done.hist) /\ done.r = Ok(None)
    /\ done.node.k = "If" =>
         \A i \in 1..Len(done.hist) :
             NonBooleanCondition(i) =>
                 /\ i = Len(done.hist)
                 /\ done.r.st = "Err"
                 /\ done.r.e.kind = "InvalidValue"

\* `let x = 1 < 2` and then `while x { x = 2 }`: the second evaluation of
\* the condition gives Integer(2).
C29_Witness ==
    /\ done.node.k = "While"
    /\ Len(done.hist) = 3
    /\ done.hist[1].r = Ok(Boolean(TRUE))
    /\ done.hist[2].r = Ok(None)
    /\ done.hist[3].r = Ok(Integer(2))
    /\ done.r = Ok(None)

(* ======================= single operations ============================ *)
(* Value::binary_operation and Value::unary_operation applied once to     *)
(* operands drawn from a small set of Values.                             *)

\* Integers and numerators of halves run over -MaxInteger..MaxInteger.
MaxInteger == 5

IntegerValues == {Integer(i) : i \in -MaxInteger..MaxInteger}
\* The floats n/2: whole numbers and halves, 0.0 among them.
FloatValues == {FloatOf(n, 2) : n \in -MaxInteger..MaxInteger}
BooleanValues == {Boolean(TRUE), Boolean(FALSE)}
Values == IntegerValues \cup FloatValues \cup BooleanValues \cup {None}

\* The operator kinds Parser::parse_binary_op and parse_unary_op hand on.
BinaryOperators ==
    {"Add", "Sub", "Mul", "Div", "Mod", "Pow", "And", "Or", "Equals",
     "NotEquals", "Greater", "GreaterEq", "LessThan", "LessThanEq"}
UnaryOperators == {"Add", "Sub", "Not"}

\* `other` is <<>> for a unary operation.
Operations ==
    {[operator |-> o, self |-> a, other |-> <<b>>] :
        o \in BinaryOperators, a \in Values, b \in Values}
    \cup {[operator |-> o, self |-> a, other |-> <<>>] :
             o \in UnaryOperators, a \in Values}

InitValue ==
    /\ EvaluatorNew
    /\ FrontIdle
    /\ operation \in Operations
    /\ outcome = Pending

\* left_value.binary_operation(right_value, operator)
BinaryOperation ==
    /\ outcome = Pending
    /\ operation.other # <<>>
    /\ outcome' = binary_operation(operation.self, operation.other[1],
                                   operation.operator)
    /\ UNCHANGED <<operation, evaluatorVars, frontVars>>

\* value.unary_operation(operator)
UnaryOperation ==
    /\ outcome = Pending
    /\ operation.other = <<>>
    /\ outcome' = unary_operation(operation.self, operation.operator)
    /\ UNCHANGED <<operation, evaluatorVars, frontVars>>

NextValue ==
    \/ BinaryOperation
    \/ UnaryOperation

SpecValue == InitValue /\ [][NextValue]_vars

\* The operation has been applied to two operands.
AppliedBinary == outcome # Pending /\ operation.other # <<>>
\* Its operands are Integers, or Floats, and the right one is zero.
ZeroDivisor ==
    /\ AppliedBinary
    /\ \/ BothInteger(operation.self, operation.other[1])
          /\ operation.other[1].i = 0
       \/ BothFloat(operation.self, operation.other[1])
          /\ operation.other[1].n = 0

(* C12: `/` and `%` with an Integer dividend and Integer divisor 0, or a    *)
(* Float dividend and Float divisor 0.0, give the DivisionByZero error     *)
(* carrying the operator, not InvalidOperation and not a panic.            *)
C12_DivisionByZero ==
    ZeroDivisor /\ operation.operator \in {"Div", "Mod"} =>
        outcome = Err(DivisionByZero(operation.operator))

\* `5 % 0` has panicked.
C12_Witness ==
    /\ operation = [operator |-> "Mod", self |-> Integer(5),
                    other |-> <<Integer(0)>>]
    /\ outcome.st = "Panic"

(* C12 for `/` alone: division by Integer 0 or Float 0.0 gives             *)
(* DivisionByZero.                                                         *)
C12_DivisionByZero_Div ==
    ZeroDivisor /\ operation.operator = "Div" =>
        outcome = Err(DivisionByZero("Div"))

\* One operand is an Integer and the other a Float.
MixedNumbers ==
    {operation.self.t, operation.other[1].t} = {"Integer", "Float"}

(* C13: every binary and every unary operator, on every combination of     *)
(* operand Values, returns a Value or a runtime error and never panics;    *)
(* Integer with Float for + - * / %, and a non-Boolean for and / or / not, *)
(* give InvalidOperation; Integer ^ negative Integer gives an error.       *)
C13_OperatorsTotal ==
    outcome # Pending =>
        /\ outcome.st \in {"Ok", "Err"}
        /\ AppliedBinary /\ MixedNumbers
           /\ operation.operator \in {"Add", "Sub", "Mul", "Div", "Mod"} =>
             outcome = Err(InvalidOperation(operation.operator,
                               <<operation.self>>, operation.other[1]))
        /\ AppliedBinary /\ operation.operator \in {"And", "Or"}
           /\ ~BothBoolean(operation.self, operation.other[1]) =>
             outcome = Err(InvalidOperation(operation.operator,
                               <<operation.self>>, operation.other[1]))
        /\ operation.other = <<>> /\ operation.operator = "Not"
           /\ operation.self.t # "Boolean" =>
             outcome = Err(InvalidOperation("Not", <<>>, operation.self))
        /\ AppliedBinary /\ operation.operator = "Pow"
           /\ BothInteger(operation.self, operation.other[1])
           /\ operation.other[1].i < 0 =>
             outcome.st = "Err"

\* `2 ^ -1` has panicked.
C13_Witness ==
    /\ operation = [operator |-> "Pow", self |-> Integer(2),
                    other |-> <<Integer(-1)>>]
    /\ outcome.st = "Panic"

(* C16: for Booleans a and b, `a == b` is Boolean(a = b) and `a != b` is    *)
(* Boolean(a xor b); neither is InvalidOperation, and the two give         *)
(* opposite answers on every pair.                                         *)
C16_BooleanEquality ==
    AppliedBinary /\ BothBoolean(operation.self, operation.other[1]) =>
        LET a == operation.self
            b == operation.other[1]
        IN /\ operation.operator = "Equals" =>
                outcome = Ok(Boolean(a.b = b.b))
           /\ operation.operator = "NotEquals" =>
                outcome = Ok(Boolean(a.b # b.b))
           /\ operation.operator \in {"Equals", "NotEquals"} =>
                /\ equals(a, b, "Equals").st = "Ok"
                /\ not_equals(a, b, "NotEquals").st = "Ok"
                /\ equals(a, b, "Equals").v # not_equals(a, b, "NotEquals").v

\* `True == True` is an InvalidOperation error.
C16_Witness ==
    /\ operation = [operator |-> "Equals", self |-> Boolean(TRUE),
                    other |-> <<Boolean(TRUE)>>]
    /\ outcome = Err(InvalidOperation("Equals", <<Boolean(TRUE)>>,
                                      Boolean(TRUE)))

(* C16 for `!=` alone: on Booleans it is Boolean(a xor b).                 *)
C16_BooleanNotEquals ==
    AppliedBinary /\ BothBoolean(operation.self, operation.other[1])
    /\ operation.operator = "NotEquals" =>
        outcome = Ok(Boolean(operation.self.b # operation.other[1].b))

(* ============================= tokenizer ============================== *)
(* A char is a string of one character; the remaining input is a sequence *)
(* of chars.  An Option is <<>> or <<x>>.                                 *)

PositionNew(row, column) == [row |-> row, column |-> column]
PositionNext(position) == [position EXCEPT !.column = @ + 1]
PositionNewline(position) == [row |-> position.row + 1, column |-> 0]

\* A TokenKind without and with a payload.
TokenKind(kind) == [kind |-> kind, v |-> <<>>]
TokenKindOf(kind, v) == [kind |-> kind, v |-> v]

from_str(identifier) ==
    CASE identifier = "True" -> <<TokenKindOf("Boolean", TRUE)>>
      [] identifier = "False" -> <<TokenKindOf("Boolean", FALSE)>>
      [] identifier = "None" -> <<TokenKind("None")>>
      [] identifier = "not" -> <<TokenKind("Not")>>
      [] identifier = "and" -> <<TokenKind("And")>>
      [] identifier = "or" -> <<TokenKind("Or")>>
      [] OTHER -> <<>>

TokenNew(start, end, kind) ==
    [start |-> start, end |-> end, kind |-> kind.kind, v |-> kind.v]

COMPERATORS ==
    {"Equals", "NotEquals", "Greater", "GreaterEq", "LessThan", "LessThanEq"}

InvalidIntegerSize(start, end) ==
    [kind |-> "InvalidIntegerSize", start |-> start, end |-> end]
InvalidFloatSize(start, end) ==
    [kind |-> "InvalidFloatSize", start |-> start, end |-> end]
UnclosedCharDelimeter(start, end, found) ==
    [kind |-> "UnclosedCharDelimeter", start |-> start, end |-> end,
     found |-> found]
UnclosedStringDelimeter(start) ==
    [kind |-> "UnclosedStringDelimeter", start |-> start]
UnexpectedChar(position, c) ==
    [kind |-> "UnexpectedChar", position |-> position, c |-> c]
MultipleFloatingPoints_at_dot(start, end) ==
    [kind |-> "MultipleFloatingPoints", start |-> end, end |-> end]
MultipleFloatingPoints(start, end) ==
    [kind |-> "MultipleFloatingPoints", start |-> start, end |-> end]
UnrecognizedChar(position, c) ==
    [kind |-> "UnrecognizedChar", position |-> position, c |-> c]

single(position, kind) == <<Ok(TokenNew(position, <<>>, kind))>>
multi(start, end, kind) == <<Ok(TokenNew(start, <<end>>, kind))>>
raw(start, end, kind) == <<Ok(TokenNew(start, end, kind))>>
syntax_error(kind) == <<Err(kind)>>

\* What a method of the Tokenizer returns and leaves in chars and position.
Lexed(item, chars, position) ==
    [item |-> item, chars |-> chars, position |-> position]

Lower ==
    {"a", "b", "c", "d", "e", "f", "g", "h", "i", "j", "k", "l", "m",
     "n", "o", "p", "q", "r", "s", "t", "u", "v", "w", "x", "y", "z"}
Upper ==
    {"A", "B", "C", "D", "E", "F", "G", "H", "I", "J", "K", "L", "M",
     "N", "O", "P", "Q", "R", "S", "T", "U", "V", "W", "X", "Y", "Z"}
is_ascii_alphabetic(c) == c \in Lower \cup Upper
Digit ==
    ("0" :> 0) @@ ("1" :> 1) @@ ("2" :> 2) @@ ("3" :> 3) @@ ("4" :> 4)
    @@ ("5" :> 5) @@ ("6" :> 6) @@ ("7" :> 7) @@ ("8" :> 8) @@ ("9" :> 9)
is_numeric(c) == c \in DOMAIN Digit

\* The kinds of the one-character tokens of _next.
Singles ==
    ("+" :> "Add") @@ ("*" :> "Mul") @@ ("/" :> "Div") @@ ("%" :> "Mod")
    @@ ("^" :> "Pow") @@ ("(" :> "LeftParen") @@ (")" :> "RightParen")
    @@ ("{" :> "LeftCurly") @@ ("}" :> "RightCurly")
    @@ ("[" :> "LeftBracket") @@ ("]" :> "RightBracket")

next_line(chars, position) ==
    Lexed(single(position, TokenKind("NewLine")), chars,
          PositionNewline(position))

next_dash(chars, position) ==
    IF chars # <<>> /\ Head(chars) = ">"
    THEN Lexed(multi(position, PositionNext(position), TokenKind("Arrow")),
               Tail(chars), PositionNext(position))
    ELSE Lexed(single(position, TokenKind("Sub")), chars, position)

next_equals(chars, position) ==
    CASE chars # <<>> /\ Head(chars) = ">" ->
           Lexed(multi(position, PositionNext(position),
                       TokenKind("DoubleArrow")),
                 Tail(chars), PositionNext(position))
      [] chars # <<>> /\ Head(chars) = "=" ->
           Lexed(multi(position, PositionNext(position),
                       TokenKind("Equals")),
                 Tail(chars), PositionNext(position))
      [] OTHER -> Lexed(single(position, TokenKind("Assignment")), chars,
                        position)

\* self.chars.next() takes the char after the `!` whatever it is.
next_exclemation(chars, position) ==
    IF chars # <<>> /\ Head(chars) = "="
    THEN Lexed(multi(position, PositionNext(position),
                     TokenKind("NotEquals")),
               Tail(chars), PositionNext(position))
    ELSE Lexed(syntax_error(UnexpectedChar(PositionNext(position), "!")),
               IF chars = <<>> THEN chars ELSE Tail(chars),
               PositionNext(position))

next_greater(chars, position) ==
    IF chars # <<>> /\ Head(chars) = "="
    THEN Lexed(multi(position, PositionNext(position),
                     TokenKind("GreaterEq")),
               Tail(chars), PositionNext(position))
    ELSE Lexed(single(position, TokenKind("Greater")), chars, position)

next_less_than(chars, position) ==
    IF chars # <<>> /\ Head(chars) = "="
    THEN Lexed(multi(position, PositionNext(position),
                     TokenKind("LessThanEq")),
               Tail(chars), PositionNext(position))
    ELSE Lexed(single(position, TokenKind("LessThan")), chars, position)

\* The `while let` of next_identifier: [identifier, chars, position] after it.
RECURSIVE next_identifier_while(_, _, _)
next_identifier_while(identifier, chars, position) ==
    IF chars # <<>>
       /\ (is_ascii_alphabetic(Head(chars)) \/ is_numeric(Head(chars))
           \/ Head(chars) = "_")
    THEN next_identifier_while(identifier \o Head(chars), Tail(chars),
                               PositionNext(position))
    ELSE [identifier |-> identifier, chars |-> chars, position |-> position]

next_identifier(c, chars, position) ==
    LET start == position
        after == next_identifier_while(c, chars, position)
        end == IF after.position = start THEN <<>> ELSE <<after.position>>
    IN Lexed(IF from_str(after.identifier) # <<>>
             THEN raw(start, end, from_str(after.identifier)[1])
             ELSE raw(start, end,
                      TokenKindOf("Identifier", after.identifier)),
             after.chars, after.position)

\* The `while let` of next_string: [string, chars, position] after it.
RECURSIVE next_string_while(_, _, _)
next_string_while(string, chars, position) ==
    IF chars # <<>> /\ Head(chars) # "\""
    THEN next_string_while(string \o Head(chars), Tail(chars),
                           PositionNext(position))
    ELSE [string |-> string, chars |-> chars, position |-> position]

\* The closing quote is taken by self.chars.next() alone.
next_string(chars, position) ==
    LET start == position
        after == next_string_while("", chars, position)
    IN IF after.chars # <<>>
       THEN Lexed(multi(start, after.position,
                        TokenKindOf("String", after.string)),
                  Tail(after.chars), after.position)
       ELSE Lexed(syntax_error(UnclosedStringDelimeter(start)),
                  after.chars, PositionNext(after.position))

next_char(chars, position) ==
    LET start == position
    IN IF chars = <<>>
       THEN Lexed(syntax_error(UnexpectedChar(position, "'")), chars,
                  position)
       ELSE LET result == Head(chars)
                second == PositionNext(position)
                rest == Tail(chars)
            IN CASE rest # <<>> /\ Head(rest) = "'" ->
                      Lexed(multi(start, PositionNext(second),
                                  TokenKindOf("Character", result)),
                            Tail(rest), PositionNext(second))
                 [] rest # <<>> /\ Head(rest) # "'" ->
                      Lexed(syntax_error(UnclosedCharDelimeter(
                                start, PositionNext(second),
                                <<Head(rest)>>)),
                            Tail(rest), PositionNext(second))
                 [] OTHER ->
                      Lexed(syntax_error(UnclosedCharDelimeter(
                                start, second, <<>>)),
                            rest, second)

\* The value of a string of decimal digits.
RECURSIVE DecimalValue(_)
DecimalValue(digits) ==
    IF digits = <<>> THEN 0
    ELSE 10 * DecimalValue(SubSeq(digits, 1, Len(digits) - 1))
         + Digit[digits[Len(digits)]]

\* number.parse::<i32>() of a string of digits: checked multiplication and
\* addition, digit by digit.
RECURSIVE parse_i32(_)
parse_i32(number) ==
    IF number = <<>> THEN Ok(0)
    ELSE LET most == parse_i32(SubSeq(number, 1, Len(number) - 1))
             digit == Digit[number[Len(number)]]
         IN IF most.st = "Err" THEN most
            ELSE IF most.v > I32Max \div 10
                    \/ (most.v = I32Max \div 10 /\ digit > I32Max % 10)
                 THEN Err("PosOverflow")
                 ELSE Ok(10 * most.v + digit)

\* number.parse::<f32>() of digits with one `.`: the decimal fraction.
parse_f32(number) ==
    LET dot == CHOOSE i \in 1..Len(number) : number[i] = "."
        decimals == Len(number) - dot
    IN Ok(FloatOf(DecimalValue(SubSeq(number, 1, dot - 1))
                      * IntPow(10, decimals)
                  + DecimalValue(SubSeq(number, dot + 1, Len(number))),
                  IntPow(10, decimals)))

\* The `loop` of next_number and what follows it.
RECURSIVE next_number_loop(_, _, _, _, _)
next_number_loop(start, number, is_float, chars, position) ==
    CASE chars # <<>> /\ is_numeric(Head(chars)) ->
           next_number_loop(start, Append(number, Head(chars)), is_float,
                            Tail(chars), PositionNext(position))
      [] chars # <<>> /\ Head(chars) = "." ->
           IF is_float
           THEN Lexed(syntax_error(MultipleFloatingPoints(
                          start, PositionNext(position))),
                      chars, PositionNext(position))
           ELSE next_number_loop(start, Append(number, "."), TRUE,
                                 Tail(chars), PositionNext(position))
      [] OTHER ->
           LET end == IF position = start THEN <<>> ELSE <<position>>
           IN IF is_float
              THEN Lexed(IF parse_f32(number).st = "Ok"
                         THEN raw(start, end,
                                  TokenKindOf("Float", parse_f32(number).v))
                         ELSE syntax_error(InvalidFloatSize(start, end[1])),
                         chars, position)
              ELSE Lexed(IF parse_i32(number).st = "Ok"
                         THEN raw(start, end,
                                  TokenKindOf("Integer",
                                              parse_i32(number).v))
                         ELSE syntax_error(
                                  InvalidIntegerSize(start, end[1])),
                         chars, position)

next_number(c, chars, position) ==
    next_number_loop(position, <<c>>, FALSE, chars, position)

RECURSIVE _next(_, _)
_next(chars, position) ==
    IF chars = <<>> THEN Lexed(<<>>, chars, PositionNext(position))
    ELSE LET c == Head(chars)
             rest == Tail(chars)
             here == PositionNext(position)
         IN CASE c = " " -> _next(rest, here)
              [] c \in DOMAIN Singles ->
                   Lexed(single(here, TokenKind(Singles[c])), rest, here)
              [] c = "\n" -> next_line(rest, here)
              [] c = "-" -> next_dash(rest, here)
              [] c = "=" -> next_equals(rest, here)
              [] c = "!" -> next_exclemation(rest, here)
              [] c = ">" -> next_greater(rest, here)
              [] c = "<" -> next_less_than(rest, here)
              [] c = "\"" -> next_string(rest, here)
              [] c = "'" -> next_char(rest, here)
              [] is_ascii_alphabetic(c) \/ c = "_" ->
                   next_identifier(c, rest, here)
              [] is_numeric(c) -> next_number(c, rest, here)
              [] OTHER ->
                   Lexed(syntax_error(UnrecognizedChar(here, c)), rest, here)

\* The Tokenizer struct after Tokenizer::new: one item already lexed.
TokenizerNew(chars) ==
    LET first == _next(chars, PositionNew(1, 0))
    IN [chars |-> first.chars, overhead |-> first.item,
        position |-> first.position]

\* Iterator::next: the item returned and the Tokenizer afterwards.
next(self) ==
    LET following == _next(self.chars, self.position)
    IN [current |-> self.overhead,
        self |-> [chars |-> following.chars, overhead |-> following.item,
                  position |-> following.position]]

\* A peek that lexes the item after the stored one.
peek_following(self) == next(self).self.overhead
peek(self) == self.overhead

(* ---------------------- collecting a token stream --------------------- *)

\* The longest input is MaxPieces of the Pieces in a row.
MaxPieces == 3

Pieces ==
    {<<"x">>, <<"t", "r", "u", "e">>, <<"T", "r", "u", "e">>,
     <<"n", "o", "t">>, <<" ">>, <<"\n">>, <<"@">>, <<"!">>, <<"=">>,
     <<">">>, <<"-">>, <<"\"", "a", "\"">>, <<"\"">>, <<"'", "c", "'">>,
     <<"'">>, <<"1">>, <<"1", ".", "2">>, <<".">>}

RECURSIVE Concatenations(_)
Concatenations(n) ==
    IF n = 0 THEN {<<>>}
    ELSE Concatenations(n - 1)
         \cup {s \o p : s \in Concatenations(n - 1), p \in Pieces}

\* `x y z\ntrue false none\nnot and or`
IdentifiersInput ==
    <<"x", " ", "y", " ", "z", "\n", "t", "r", "u", "e", " ", "f", "a", "l",
      "s", "e", " ", "n", "o", "n", "e", "\n", "n", "o", "t", " ", "a", "n",
      "d", " ", "o", "r">>
\* `x y z@`
UnrecognizedCharInput == <<"x", " ", "y", " ", "z", "@">>
\* `123 12.3 0.01 1.2.3`
NumbersInput ==
    <<"1", "2", "3", " ", "1", "2", ".", "3", " ", "0", ".", "0", "1", " ",
      "1", ".", "2", ".", "3">>
\* `"ab" 'c' x`
LiteralsInput == <<"\"", "a", "b", "\"", " ", "'", "c", "'", " ", "x">>
\* `True False None _a1 2147483648`
KeywordsInput ==
    <<"T", "r", "u", "e", " ", "F", "a", "l", "s", "e", " ", "N", "o", "n",
      "e", " ", "_", "a", "1", " ", "2", "1", "4", "7", "4", "8", "3", "6",
      "4", "8">>
\* `+ * / % ^ ( ) { } [ ] -> => == != >= <= < > = -`
OperatorsInput ==
    <<"+", "*", "/", "%", "^", "(", ")", "{", "}", "[", "]", " ", "-", ">",
      " ", "=", ">", " ", "=", "=", " ", "!", "=", " ", ">", "=", " ", "<",
      "=", " ", "<", " ", ">", " ", "=", " ", "-">>

Inputs ==
    Concatenations(MaxPieces)
    \cup {IdentifiersInput, UnrecognizedCharInput, NumbersInput,
          LiteralsInput, KeywordsInput, OperatorsInput}

\* The evaluator and the single operations take no part.
InitTokenizer ==
    /\ EvaluatorNew
    /\ ValueIdle
    /\ input \in Inputs
    /\ tokenizer = TokenizerNew(input)
    /\ yielded = <<>>
    /\ mark = 0
    /\ peeked = NoPeek
    /\ remaining = <<>>
    /\ ast = Pending

\* One call of Iterator::next by a consumer that stops at the first None
\* (collect()).  `from` is the number of chars taken before the item was
\* lexed.  `peeked` keeps what the calls of peek since the call of next
\* before this one returned, and what this call returns.
TokenizerNext ==
    /\ IF yielded = <<>> THEN TRUE ELSE yielded[Len(yielded)].item # <<>>
    /\ yielded' = Append(yielded, [item |-> next(tokenizer).current,
                                   from |-> mark])
    /\ tokenizer' = next(tokenizer).self
    /\ mark' = Len(input) - Len(tokenizer.chars)
    /\ peeked' = [items |-> IF peeked.answer = <<>> THEN peeked.items
                             ELSE <<>>,
                   answer |-> <<next(tokenizer).current>>]
    /\ UNCHANGED <<input, ast, remaining, evaluatorVars, valueVars>>

NextTokenizer == TokenizerNext

SpecTokenizer == InitTokenizer /\ [][NextTokenizer]_vars

\* The stream has been collected up to its end.
Collected ==
    IF yielded = <<>> THEN FALSE ELSE yielded[Len(yielded)].item = <<>>
TokenizerTypeOK == Len(yielded) <= Len(input) + 1

\* The number of spaces at the front of chars: what _next skips.
RECURSIVE LeadingSpaces(_)
LeadingSpaces(chars) ==
    IF chars # <<>> /\ Head(chars) = " " THEN 1 + LeadingSpaces(Tail(chars))
    ELSE 0

\* The index in the input of the first char of the lexeme of yielded[i].
FirstChar(i) ==
    yielded[i].from
    + LeadingSpaces(SubSeq(input, yielded[i].from + 1, Len(input))) + 1

\* The line and the 1-based index within the line of input[i].
LinePosition(i) ==
    LET breaks == {j \in 1..(i - 1) : input[j] = "\n"}
    IN PositionNew(1 + Cardinality(breaks),
                   i - (CHOOSE b \in breaks \cup {0} :
                            \A j \in breaks : j <= b))

\* The chars from input[i] on that an identifier goes on with, as a string.
RECURSIVE Word(_)
Word(i) ==
    IF i <= Len(input)
       /\ (is_ascii_alphabetic(input[i]) \/ is_numeric(input[i])
           \/ input[i] = "_")
    THEN input[i] \o Word(i + 1)
    ELSE ""

\* yielded[i] is the item of an identifier-shaped lexeme.
IsWord(i) ==
    /\ yielded[i].item # <<>>
    /\ FirstChar(i) <= Len(input)
    /\ is_ascii_alphabetic(input[FirstChar(i)]) \/ input[FirstChar(i)] = "_"

\* The end of a token of n chars that starts at `start`.
EndOf(start, n) ==
    IF n = 1 THEN <<>> ELSE <<PositionNew(start.row, start.column + n - 1)>>

\* The item is the token of this kind, start and end.
IsToken(item, start, end, kind) ==
    /\ item # <<>>
    /\ item[1].st = "Ok"
    /\ item[1].v.kind = kind.kind
    /\ item[1].v.v = kind.v
    /\ item[1].v.start = start
    /\ item[1].v.end = end

(* C17: an identifier-shaped lexeme is looked up in the keyword table:     *)
(* `true` / `false` give Boolean, `none` gives None, `not` / `and` / `or`  *)
(* give Not / And / Or, any other lexeme gives Identifier(name); a lexeme  *)
(* of n chars at column c of row r has start (r, c) and end (r, c + n - 1),*)
(* or no end when n = 1.                                                   *)
C17_Keywords ==
    \A i \in 1..Len(yielded) :
        IsWord(i) =>
            LET word == Word(FirstChar(i))
                start == LinePosition(FirstChar(i))
                kind == CASE word = "true" -> TokenKindOf("Boolean", TRUE)
                          [] word = "false" -> TokenKindOf("Boolean", FALSE)
                          [] word = "none" -> TokenKind("None")
                          [] word = "not" -> TokenKind("Not")
                          [] word = "and" -> TokenKind("And")
                          [] word = "or" -> TokenKind("Or")
                          [] OTHER -> TokenKindOf("Identifier", word)
            IN IsToken(yielded[i].item, start, EndOf(start, Len(word)), kind)

\* `x y z\ntrue false none\nnot and or` is collected and its fifth token,
\* `true`, is an Identifier.
C17_Witness ==
    /\ input = IdentifiersInput
    /\ Collected
    /\ IsToken(yielded[5].item, PositionNew(2, 1), <<PositionNew(2, 4)>>,
               TokenKindOf("Identifier", "true"))

(* C17 with the keyword table of TokenKind::from_str (`True`, `False`,     *)
(* `None`, `not`, `and`, `or`) and the end taken from the token's own      *)
(* start: every identifier-shaped lexeme gives that token.                 *)
C17_KeywordsAsCoded ==
    \A i \in 1..Len(yielded) :
        IsWord(i) =>
            LET word == Word(FirstChar(i))
                kind == CASE word = "True" -> TokenKindOf("Boolean", TRUE)
                          [] word = "False" -> TokenKindOf("Boolean", FALSE)
                          [] word = "None" -> TokenKind("None")
                          [] word = "not" -> TokenKind("Not")
                          [] word = "and" -> TokenKind("And")
                          [] word = "or" -> TokenKind("Or")
                          [] OTHER -> TokenKindOf("Identifier", word)
            IN /\ yielded[i].item[1].st = "Ok"
               /\ IsToken(yielded[i].item, yielded[i].item[1].v.start,
                          EndOf(yielded[i].item[1].v.start, Len(word)),
                          kind)

\* yielded[i] is a lexical error.
IsErr(i) ==
    IF yielded[i].item = <<>> THEN FALSE ELSE yielded[i].item[1].st = "Err"

(* C18: once the token stream has yielded an Err it yields no further      *)
(* items: an error is followed by nothing but the end of the stream, so a  *)
(* stream holds at most one lexical error and it is its last item.         *)
C18_ErrorEndsStream ==
    \A i \in 1..Len(yielded) :
        IsErr(i) => \A j \in (i + 1)..Len(yielded) : yielded[j].item = <<>>

\* `@@` is collected: two errors, one after the other.
C18_Witness ==
    /\ input = <<"@", "@">>
    /\ Collected
    /\ Len(yielded) = 3
    /\ IsErr(1)
    /\ IsErr(2)
    /\ yielded[2].item[1].e = UnrecognizedChar(PositionNew(1, 2), "@")

(* C18 for `x y z@`: three identifiers, then UnrecognizedChar at (1, 6),   *)
(* then the stream ends.                                                   *)
C18_UnrecognizedCharExample ==
    input = UnrecognizedCharInput /\ Collected =>
        /\ Len(yielded) = 5
        /\ IsToken(yielded[1].item, PositionNew(1, 1), <<>>,
                   TokenKindOf("Identifier", "x"))
        /\ IsToken(yielded[2].item, PositionNew(1, 3), <<>>,
                   TokenKindOf("Identifier", "y"))
        /\ IsToken(yielded[3].item, PositionNew(1, 5), <<>>,
                   TokenKindOf("Identifier", "z"))
        /\ yielded[4].item
               = <<Err(UnrecognizedChar(PositionNew(1, 6), "@"))>>

\* The position an item is reported at: a token's start, an error's start
\* or position.
StartOf(item) ==
    IF item[1].st = "Ok" THEN item[1].v.start
    ELSE IF item[1].e.kind \in {"UnexpectedChar", "UnrecognizedChar"}
         THEN item[1].e.position
         ELSE item[1].e.start

(* C19: every char the lexer consumes, the spaces and the opening and      *)
(* closing quotes of literals among them, advances the column by one, and  *)
(* `\n` resets the column and increments the row; hence every token and    *)
(* every error starts at (line number, 1-based index of its first char     *)
(* within that line).                                                      *)
C19_Positions ==
    \A i \in 1..Len(yielded) :
        yielded[i].item # <<>> =>
            StartOf(yielded[i].item) = LinePosition(FirstChar(i))

\* `"a" x` is collected: x, the fifth char of the line, starts at (1, 4).
C19_Witness ==
    /\ input = <<"\"", "a", "\"", " ", "x">>
    /\ Collected
    /\ IsToken(yielded[1].item, PositionNew(1, 1), <<PositionNew(1, 2)>>,
               TokenKindOf("String", "a"))
    /\ IsToken(yielded[2].item, PositionNew(1, 4), <<>>,
               TokenKindOf("Identifier", "x"))

(* C19 where no string or char literal, no `!` and no second `.` of a      *)
(* number comes before the lexeme, and the lexeme is not a `!`: the item   *)
(* starts at (line number, 1-based index within the line).                 *)
C19_PositionsOutsideLiterals ==
    \A i \in 1..Len(yielded) :
        (/\ yielded[i].item # <<>>
         /\ \A j \in 1..(FirstChar(i) - 1) :
                input[j] \notin {"\"", "'", "!"}
         /\ FirstChar(i) <= Len(input) => input[FirstChar(i)] # "!"
         /\ \A j \in 1..(i - 1) :
                IsErr(j) =>
                    yielded[j].item[1].e.kind # "MultipleFloatingPoints")
        => StartOf(yielded[i].item) = LinePosition(FirstChar(i))

\* The number of digits and dots in a row from input[i] on.
RECURSIVE NumberRun(_)
NumberRun(i) ==
    IF i <= Len(input) /\ (is_numeric(input[i]) \/ input[i] = ".")
    THEN 1 + NumberRun(i + 1)
    ELSE 0

\* yielded[i] is the item of a lexeme that starts with a digit.
IsNumber(i) ==
    /\ yielded[i].item # <<>>
    /\ FirstChar(i) <= Len(input)
    /\ is_numeric(input[FirstChar(i)])

\* Nothing before input[i] leaves the position behind the chars consumed.
CleanBefore(i) ==
    /\ \A j \in 1..(FirstChar(i) - 1) : input[j] \notin {"\"", "'", "!"}
    /\ \A j \in 1..(i - 1) :
           IsErr(j) => yielded[j].item[1].e.kind # "MultipleFloatingPoints"

IsCharLiteral(i) ==
    /\ yielded[i].item # <<>>
    /\ FirstChar(i) <= Len(input)
    /\ input[FirstChar(i)] = "'"

\* The item is this error.
IsError(item, e) ==
    /\ item # <<>>
    /\ item[1].st = "Err"
    /\ item[1].e.kind = e.kind
    /\ item[1].e = e

(* C21: a `'` starts a character literal that must be exactly `'c'`.  When *)
(* the input ends right after the opening `'`, or right after c, the item  *)
(* is UnclosedCharDelimeter with the start at the opening `'` and found =  *)
(* None; when the char after c is not `'` it is UnclosedCharDelimeter with *)
(* found = Some(that char); otherwise it is the token Character(c) from    *)
(* the opening quote to the closing quote.  (Positions are compared where  *)
(* nothing before the literal has left the position behind.)               *)
C21_CharLiteral ==
    \A i \in 1..Len(yielded) :
        IsCharLiteral(i) =>
            LET first == FirstChar(i)
                item == yielded[i].item
                closed == IF first + 2 <= Len(input)
                          THEN input[first + 2] = "'" ELSE FALSE
            IN /\ first + 2 > Len(input) =>
                    /\ item[1].st = "Err"
                    /\ item[1].e.kind = "UnclosedCharDelimeter"
                    /\ item[1].e.found = <<>>
               /\ first + 2 <= Len(input) /\ ~closed =>
                    /\ item[1].st = "Err"
                    /\ item[1].e.kind = "UnclosedCharDelimeter"
                    /\ item[1].e.found = <<input[first + 2]>>
               /\ closed =>
                    /\ item[1].st = "Ok"
                    /\ item[1].v.kind = "Character"
                    /\ item[1].v.v = input[first + 1]
                    /\ CleanBefore(i) =>
                           item[1].v.end = <<LinePosition(first + 2)>>
               /\ CleanBefore(i) => StartOf(item) = LinePosition(first)

\* `'` alone is collected: the item is UnexpectedChar at (1, 1) with c the
\* quote, not UnclosedCharDelimeter.
C21_Witness ==
    /\ input = <<"'">>
    /\ Collected
    /\ IsError(yielded[1].item, UnexpectedChar(PositionNew(1, 1), "'"))

(* C21 as the lexer does it: the input ending right after the opening `'`  *)
(* gives UnexpectedChar at the opening quote with c = `'`; the other cases *)
(* are as C21 states them, the end of Character(c) being two columns after *)
(* its start on the same row.                                              *)
C21_CharLiteralAsCoded ==
    \A i \in 1..Len(yielded) :
        IsCharLiteral(i) =>
            LET first == FirstChar(i)
                item == yielded[i].item
                closed == IF first + 2 <= Len(input)
                          THEN input[first + 2] = "'" ELSE FALSE
            IN /\ first = Len(input) =>
                    IsError(item, UnexpectedChar(StartOf(item), "'"))
               /\ first + 1 = Len(input) =>
                    /\ item[1].st = "Err"
                    /\ item[1].e.kind = "UnclosedCharDelimeter"
                    /\ item[1].e.found = <<>>
               /\ first + 2 <= Len(input) /\ ~closed =>
                    /\ item[1].st = "Err"
                    /\ item[1].e.kind = "UnclosedCharDelimeter"
                    /\ item[1].e.found = <<input[first + 2]>>
               /\ closed =>
                    /\ item[1].st = "Ok"
                    /\ item[1].v.kind = "Character"
                    /\ item[1].v.v = input[first + 1]
                    /\ item[1].v.end
                           = <<PositionNew(item[1].v.start.row,
                                           item[1].v.start.column + 2)>>
               /\ CleanBefore(i) => StartOf(item) = LinePosition(first)

\* The columns from start to end, an absent end being the start.
Span(start, end) ==
    IF end = <<>> THEN 1 ELSE end[1].column - start.column + 1

\* The number of chars of the lexeme that the item yielded[i] reports.
Covered(i) ==
    LET item == yielded[i].item[1]
    IN IF item.st = "Ok"
       THEN CASE item.v.kind = "String" -> Len(item.v.v) + 2
              [] item.v.kind = "Character" -> 3
              [] OTHER -> Span(item.v.start, item.v.end)
       ELSE CASE item.e.kind \in {"UnrecognizedChar", "UnexpectedChar"} -> 1
              [] item.e.kind = "MultipleFloatingPoints" ->
                   item.e.end.column - item.e.start.column
              [] item.e.kind = "UnclosedCharDelimeter" ->
                   IF item.e.found = <<>> THEN 2 ELSE 3
              [] item.e.kind = "UnclosedStringDelimeter" ->
                   Len(input) - FirstChar(i) + 1
              [] OTHER -> Span(item.e.start, <<item.e.end>>)

\* The number of chars taken for yielded[i], from the first char of its
\* lexeme to where the lexing of the following item began.
Taken(i) == yielded[i + 1].from - FirstChar(i) + 1

(* C30: the lexer consumes no char without accounting for it.  The chars   *)
(* taken for an item are the chars of the lexeme it reports, so the item   *)
(* after it begins at the first char it does not cover: after the          *)
(* UnexpectedChar of a `!` the char after the `!` is still to be lexed,    *)
(* and after MultipleFloatingPoints the second `.` is lexed next, at the   *)
(* position the error gave as its end.                                     *)
C30_EveryCharAccounted ==
    \A i \in 1..(Len(yielded) - 1) :
        yielded[i].item # <<>> =>
            /\ Taken(i) = Covered(i)
            /\ (IsErr(i)
                /\ yielded[i].item[1].e.kind = "MultipleFloatingPoints") =>
                   IsError(yielded[i + 1].item,
                           UnrecognizedChar(yielded[i].item[1].e.end, "."))

\* `!x` is collected: UnexpectedChar for the `!`, then the end of the
\* stream; the x was taken with the `!`.
C30_Witness ==
    /\ input = <<"!", "x">>
    /\ Collected
    /\ Len(yielded) = 2
    /\ IsError(yielded[1].item, UnexpectedChar(PositionNew(1, 2), "!"))
    /\ yielded[2].from = 2

(* C30 as the lexer does it: the chars taken are those of the lexeme,      *)
(* except that a `!` not followed by `=` takes the char after it too, and  *)
(* the `.` after MultipleFloatingPoints is reported one column after the   *)
(* end of the error.                                                       *)
C30_EveryCharAccountedAsCoded ==
    \A i \in 1..(Len(yielded) - 1) :
        yielded[i].item # <<>> =>
            /\ Taken(i)
                 = IF IsError(yielded[i].item,
                              UnexpectedChar(StartOf(yielded[i].item), "!"))
                      /\ FirstChar(i) < Len(input)
                   THEN 2
                   ELSE Covered(i)
            /\ (IsErr(i)
                /\ yielded[i].item[1].e.kind = "MultipleFloatingPoints") =>
                   IsError(yielded[i + 1].item,
                           UnrecognizedChar(
                               PositionNext(yielded[i].item[1].e.end), "."))

(* ------------------------- peeking at the stream ---------------------- *)

\* Calls of peek between two calls of next.
MaxPeeks == 2

\* The inputs of at most MaxPieces - 1 pieces, and two of the test inputs.
PeekInputs ==
    Concatenations(MaxPieces - 1) \cup {UnrecognizedCharInput, LiteralsInput}

InitPeek ==
    /\ EvaluatorNew
    /\ ValueIdle
    /\ input \in PeekInputs
    /\ tokenizer = TokenizerNew(input)
    /\ yielded = <<>>
    /\ mark = 0
    /\ peeked = NoPeek
    /\ remaining = <<>>
    /\ ast = Pending

\* One call of peek: it returns a reference to the overhead and writes no
\* field of the Tokenizer.
TokenizerPeek ==
    /\ IF peeked.answer = <<>> THEN Len(peeked.items) < MaxPeeks ELSE TRUE
    /\ peeked' = [items |-> IF peeked.answer = <<>>
                            THEN Append(peeked.items, peek(tokenizer))
                            ELSE <<peek(tokenizer)>>,
                  answer |-> <<>>]
    /\ UNCHANGED <<input, tokenizer, yielded, mark, ast, remaining,
                   evaluatorVars,
                   valueVars>>

NextPeek == TokenizerNext \/ TokenizerPeek

SpecPeek == InitPeek /\ [][NextPeek]_vars

\* The two items are the same item.
SameItem(a, b) ==
    IF a = <<>> \/ b = <<>> THEN a = <<>> /\ b = <<>>
    ELSE /\ a[1].st = b[1].st
         /\ IF a[1].st = "Ok"
            THEN IsToken(a, b[1].v.start, b[1].v.end, b[1].v)
            ELSE IsError(a, b[1].e)

\* The Tokenizer after n calls of next and no call of peek.
RECURSIVE TokenizerAfter(_)
TokenizerAfter(n) ==
    IF n = 0 THEN TokenizerNew(input) ELSE next(TokenizerAfter(n - 1)).self

(* C22: one-token lookahead.  Every call of peek returns the item that the *)
(* next call of next returns (None at the end of the input), however many  *)
(* times it is called, and it changes neither the chars left nor the       *)
(* position nor the item stored: the Tokenizer is the one reached by the   *)
(* calls of next alone, so the items returned afterwards are the same.     *)
C22_Lookahead ==
    /\ peeked.answer # <<>> =>
           \A k \in DOMAIN peeked.items :
               SameItem(peeked.items[k], peeked.answer[1])
    /\ tokenizer.chars = TokenizerAfter(Len(yielded)).chars
    /\ tokenizer.position = TokenizerAfter(Len(yielded)).position
    /\ SameItem(tokenizer.overhead, TokenizerAfter(Len(yielded)).overhead)

\* In `"ab" 'c' x` peek was called MaxPeeks times after the string was
\* returned, and next then returned the Character token.
C22_Witness ==
    /\ input = LiteralsInput
    /\ Len(yielded) = 2
    /\ Len(peeked.items) = MaxPeeks
    /\ peeked.answer # <<>>
    /\ peeked.answer[1] # <<>>
    /\ peeked.answer[1][1].st = "Ok"
    /\ peeked.answer[1][1].v.kind = "Character"

(* =============================== parser =============================== *)
(* A method of the Parser takes the Tokenizer (the Parser's only field)   *)
(* and returns its ParserItem with the Tokenizer as it leaves it.  A node *)
(* keeps the kind of an operator token and the name of an identifier      *)
(* token; an Atom keeps its whole token.                                  *)

UnexpectedToken(token, expected) ==
    [kind |-> "UnexpectedToken", token |-> token, expected |-> expected]
UnexpectedEOF == [kind |-> "UnexpectedEOF"]
UnclosedTokenDelimeter(start, found, delimiter) ==
    [kind |-> "UnclosedTokenDelimeter", start |-> start, found |-> found,
     delimiter |-> delimiter]

atom(token) == Ok(Atom(token))
unexpected_token(token, expected) == Err(UnexpectedToken(token, expected))
unclosed_token(start, end, delimiter) ==
    Err(UnclosedTokenDelimeter(start, end, delimiter))

Parsed(r, self) == [r |-> r, self |-> self]

\* Parser::new(tokenizer): Parser { tokenizer }. The
\* parser takes the items of the tokenizer in order and lexing has no effect
\* but its items, so self is the items the tokenizer is still to yield.
ParserNew(items) == [i \in 1..(Len(items) - 1) |-> items[i].item]

\* self.tokenizer.peek()
tokenizer_peek(self) == IF Len(self) = 0 THEN <<>> ELSE Head(self)

\* self.tokenizer.next()
tokenizer_next(self) ==
    [self |-> IF Len(self) = 0 THEN self ELSE Tail(self),
     current |-> tokenizer_peek(self)]

\* self.tokenizer.peek() is Some(Ok(token)) with token.kind among kinds.
PeekIs(self, kinds) ==
    /\ tokenizer_peek(self) # <<>>
    /\ tokenizer_peek(self)[1].st = "Ok"
    /\ tokenizer_peek(self)[1].v.kind \in kinds

\* TokenKind == TokenKind, derived (#[derive(PartialEq)]): the same variant
\* with the same payload.  `kind` is a Token or a TokenKind.
kind_eq(kind, other) ==
    IF kind.kind = other.kind THEN kind.v = other.v ELSE FALSE

expect_token(self, expected) ==
    LET item == tokenizer_next(self).current
    IN Parsed(CASE item = <<>> -> Err(UnexpectedEOF)
                [] item # <<>> /\ item[1].st = "Err" -> Err(item[1].e)
                [] item # <<>> /\ item[1].st = "Ok"
                   /\ kind_eq(item[1].v, expected) -> Ok(item[1].v)
                [] OTHER -> unexpected_token(item[1].v, <<expected>>),
              tokenizer_next(self).self)

\* close_delimiter reporting the token it finds as an unexpected one.
close_delimiter_unexpected(self, start, delimiter) ==
    LET item == tokenizer_next(self).current
    IN Parsed(CASE item = <<>> -> unclosed_token(start, <<>>, delimiter)
                [] item # <<>> /\ item[1].st = "Err" -> Err(item[1].e)
                [] item # <<>> /\ item[1].st = "Ok"
                   /\ kind_eq(item[1].v, delimiter) -> Ok(<<>>)
                [] OTHER -> unexpected_token(item[1].v, <<delimiter>>),
              tokenizer_next(self).self)

close_delimiter(self, start, delimiter) ==
    LET item == tokenizer_next(self).current
    IN Parsed(CASE item = <<>> -> unclosed_token(start, <<>>, delimiter)
                [] item # <<>> /\ item[1].st = "Err" -> Err(item[1].e)
                [] item # <<>> /\ item[1].st = "Ok"
                   /\ kind_eq(item[1].v, delimiter) -> Ok(<<>>)
                [] OTHER -> unclosed_token(start, <<item[1].v>>, delimiter),
              tokenizer_next(self).self)

RECURSIVE Method(_, _)
RECURSIVE parse_bool_expr(_)
RECURSIVE parse_expr(_)

\* `?` on the right operand and the node of one turn of the `while let`:
\* the parse so far with the operand under the operator, or the error.
binary_op(root, operator, operand) ==
    IF operand.r.st = "Err" THEN operand
    ELSE Parsed(Ok(BinaryOp(root, operator.kind, operand.r.v)), operand.self)

\* The `while let` of parse_binary_op, from the parse so far (`?` on it).
RECURSIVE parse_binary_op_while(_, _, _)
parse_binary_op_while(root, operators, right) ==
    IF root.r.st = "Err" THEN root
    ELSE IF PeekIs(root.self, operators)
    THEN parse_binary_op_while(
             binary_op(root.r.v, tokenizer_next(root.self).current[1].v,
                       Method(right, tokenizer_next(root.self).self)),
             operators, right)
    ELSE root

\* left and right are the names of the methods passed.
parse_binary_op(self, operators, left, right) ==
    parse_binary_op_while(Method(left, self), operators, right)

\* `?` on the operand and the node of parse_unary_op.
unary_op(operator, value) ==
    IF value.r.st = "Err" THEN value
    ELSE Parsed(Ok(UnaryOp(operator.kind, value.r.v)), value.self)

parse_unary_op(self, operators, operand, defualt) ==
    IF PeekIs(self, operators)
    THEN unary_op(tokenizer_next(self).current[1].v,
                  Method(operand, tokenizer_next(self).self))
    ELSE Method(defualt, self)

\* The `loop` of parse_parameters, from the value parsed (`?` on it).
RECURSIVE parse_parameters_loop(_, _, _)
parse_parameters_loop(value, delimiter, parameters) ==
    IF value.r.st = "Err" THEN value
    ELSE LET pushed == Append(parameters, value.r.v)
             item == tokenizer_peek(value.self)
         IN CASE item = <<>> -> Parsed(Ok(pushed), value.self)
              [] item # <<>> /\ item[1].st = "Err" ->
                   Parsed(Err(item[1].e), tokenizer_next(value.self).self)
              [] item # <<>> /\ item[1].st = "Ok"
                 /\ item[1].v.kind = delimiter.kind ->
                   Parsed(Ok(pushed), value.self)
              [] item # <<>> /\ item[1].st = "Ok"
                 /\ item[1].v.kind = "Comma" ->
                   parse_parameters_loop(
                       parse_bool_expr(tokenizer_next(value.self).self),
                       delimiter, pushed)
              [] OTHER ->
                   Parsed(unexpected_token(
                              item[1].v,
                              <<delimiter, TokenKind("Comma")>>),
                          tokenizer_next(value.self).self)

parse_parameters(self, delimiter) ==
    IF PeekIs(self, {delimiter.kind}) THEN Parsed(Ok(<<>>), self)
    ELSE parse_parameters_loop(parse_bool_expr(self), delimiter, <<>>)

\* `?` on what was parsed after the start token, close_delimiter and `?`
\* on it: the value parsed and the parser after the closing delimiter.
enclosed(start, parsed, delimiter) ==
    IF parsed.r.st = "Err" THEN parsed
    ELSE LET closed == close_delimiter(parsed.self, start, delimiter)
         IN IF closed.r.st = "Err" THEN closed
            ELSE Parsed(parsed.r, closed.self)

\* The Ok(Node::Index(..)) of parse_index.
index_of(identifier, parsed) ==
    IF parsed.r.st = "Err" THEN parsed
    ELSE Parsed(Ok(Index(identifier.v, parsed.r.v)), parsed.self)

parse_index(self, identifier) ==
    LET start == expect_token(self, TokenKind("LeftBracket"))
    IN IF start.r.st = "Err" THEN start
       ELSE index_of(identifier,
                     enclosed(start.r.v, parse_expr(start.self),
                              TokenKind("RightBracket")))

\* The Ok(Node::FuncCall(..)) of parse_func_call.
func_call_of(identifier, parsed) ==
    IF parsed.r.st = "Err" THEN parsed
    ELSE Parsed(Ok(FuncCall(identifier.v, parsed.r.v)), parsed.self)

parse_func_call(self, identifier) ==
    LET start == expect_token(self, TokenKind("LeftParen"))
    IN IF start.r.st = "Err" THEN start
       ELSE func_call_of(
                identifier,
                enclosed(start.r.v,
                         parse_parameters(start.self,
                                          TokenKind("RightParen")),
                         TokenKind("RightParen")))

\* The Ok(Node::List(..)) of parse_atom.
list_of(parsed) ==
    IF parsed.r.st = "Err" THEN parsed
    ELSE Parsed(Ok(ListNode(parsed.r.v)), parsed.self)

parse_atom(self) ==
    IF tokenizer_peek(self) = <<>> THEN Parsed(Err(UnexpectedEOF), self)
    ELSE IF tokenizer_next(self).current[1].st = "Err"
    THEN Parsed(Err(tokenizer_next(self).current[1].e), tokenizer_next(self).self)
    ELSE
      LET token == tokenizer_next(self).current[1].v
          after == tokenizer_next(self).self
      IN CASE token.kind = "LeftParen" ->
                enclosed(token, parse_bool_expr(after),
                         TokenKind("RightParen"))
           [] token.kind = "LeftBracket" ->
                list_of(enclosed(
                            token,
                            parse_parameters(after,
                                             TokenKind("RightBracket")),
                            TokenKind("RightBracket")))
           [] token.kind \in {"Integer", "Float", "Boolean", "Character",
                              "String", "None"} ->
                Parsed(atom(token), after)
           [] token.kind = "Identifier" ->
                IF PeekIs(after, {"LeftParen"})
                THEN parse_func_call(after, token)
                ELSE IF PeekIs(after, {"LeftBracket"})
                THEN parse_index(after, token)
                ELSE Parsed(Ok(Access(token.v)), after)
           [] OTHER ->
                Parsed(unexpected_token(
                           token,
                           <<TokenKind("LeftParen"),
                             TokenKindOf("Integer", 0),
                             TokenKindOf("Float", Float(0, 1)),
                             TokenKindOf("Identifier", ""),
                             TokenKindOf("String", ""),
                             TokenKindOf("Character", " "),
                             TokenKind("Add"), TokenKind("Sub")>>),
                       after)

parse_power_left(self) ==
    parse_binary_op(self, {"Pow"}, "parse_atom", "parse_atom")
parse_power(self) ==
    parse_binary_op(self, {"Pow"}, "parse_atom", "parse_factor")

parse_factor(self) ==
    parse_unary_op(self, {"Sub", "Add"}, "parse_factor", "parse_power")

parse_term_with_expr(self) ==
    parse_binary_op(self, {"Mul", "Div", "Mod", "Add", "Sub"},
                    "parse_factor", "parse_factor")
parse_term(self) ==
    parse_binary_op(self, {"Mul", "Div", "Mod"}, "parse_factor",
                    "parse_factor")

parse_expr(self) ==
    parse_binary_op(self, {"Add", "Sub"}, "parse_term", "parse_term")

parse_comparison(self) ==
    parse_binary_op(self, COMPERATORS, "parse_expr", "parse_expr")

parse_bool_factor(self) ==
    parse_unary_op(self, {"Not"}, "parse_bool_factor", "parse_comparison")

parse_bool_term(self) ==
    parse_binary_op(self, {"And"}, "parse_bool_factor", "parse_bool_factor")

parse_bool_expr(self) ==
    parse_binary_op(self, {"Or"}, "parse_bool_term", "parse_bool_term")

\* The call of a method passed by name (Self::parse_atom and the like).
Method(name, self) ==
    CASE name = "parse_atom" -> parse_atom(self)
      [] name = "parse_power" -> parse_power(self)
      [] name = "parse_factor" -> parse_factor(self)
      [] name = "parse_term" -> parse_term(self)
      [] name = "parse_expr" -> parse_expr(self)
      [] name = "parse_comparison" -> parse_comparison(self)
      [] name = "parse_bool_factor" -> parse_bool_factor(self)
      [] name = "parse_bool_term" -> parse_bool_term(self)

(* ----------------------------- statements ----------------------------- *)
(* TokenKind::Let, If, Else, While, Return and Comma are named by the     *)
(* parser; the tokenizer of this tree yields none of them.                *)

RECURSIVE parse_program(_)
RECURSIVE parse_if(_)

\* self.tokenizer.peek() is Some(Ok(token)).
PeekOk(self) ==
    IF tokenizer_peek(self) = <<>> THEN FALSE
    ELSE tokenizer_peek(self)[1].st = "Ok"

\* Parser::consume
RECURSIVE consume(_, _)
consume(self, kind) ==
    IF PeekIs(self, {kind.kind}) THEN consume(tokenizer_next(self).self, kind)
    ELSE self

\* The `while let` of parse_arguments.
RECURSIVE parse_arguments_while(_, _, _)
parse_arguments_while(self, arguments, expect_argument) ==
    IF ~PeekOk(self) THEN Parsed(Ok(arguments), self)
    ELSE IF PeekIs(self, {"Identifier"}) /\ expect_argument
    THEN parse_arguments_while(
             tokenizer_next(self).self,
             Append(arguments, tokenizer_peek(self)[1].v), FALSE)
    ELSE IF PeekIs(self, {"Identifier"})
    THEN Parsed(unexpected_token(
                    tokenizer_peek(self)[1].v,
                    <<TokenKind("RightParen"), TokenKind("Comma")>>),
                tokenizer_next(self).self)
    ELSE IF PeekIs(self, {"Comma"}) /\ ~expect_argument
    THEN parse_arguments_while(tokenizer_next(self).self, arguments, TRUE)
    ELSE IF /\ PeekIs(self, {"RightParen"})
            /\ (~expect_argument \/ arguments = <<>>)
    THEN Parsed(Ok(arguments), self)
    ELSE IF expect_argument
    THEN Parsed(unexpected_token(tokenizer_peek(self)[1].v,
                                 <<TokenKindOf("Identifier", "")>>),
                tokenizer_next(self).self)
    ELSE Parsed(unexpected_token(
                    tokenizer_peek(self)[1].v,
                    <<TokenKind("Comma"), TokenKind("RightParen")>>),
                tokenizer_next(self).self)

parse_arguments(self) == parse_arguments_while(self, <<>>, TRUE)

\* `?` on the `{`, parse_program, `?`, close_delimiter, `?`.
block_of(start) ==
    IF start.r.st = "Err" THEN start
    ELSE enclosed(start.r.v, parse_program(start.self),
                  TokenKind("RightCurly"))

parse_block(self) == block_of(expect_token(self, TokenKind("LeftCurly")))

\* The Ok(Node::FuncDeclearion {..}) of parse_assignment.
func_declearion_of(identifier, arguments, body) ==
    IF body.r.st = "Err" THEN body
    ELSE Parsed(Ok(FuncDeclearion(
                       identifier.v,
                       [i \in 1..Len(arguments) |-> arguments[i].v],
                       body.r.v)),
                body.self)

\* `?` on expect_token(DoubleArrow), then the block.
func_declearion_body(identifier, arguments, arrow) ==
    IF arrow.r.st = "Err" THEN arrow
    ELSE func_declearion_of(identifier, arguments, parse_block(arrow.self))

\* `?` on the arguments closed by `)`, then the `=>`.
func_declearion_arrow(identifier, arguments) ==
    IF arguments.r.st = "Err" THEN arguments
    ELSE func_declearion_body(
             identifier, arguments.r.v,
             expect_token(arguments.self, TokenKind("DoubleArrow")))

\* The Ok(Node::Assignment {..}) of parse_assignment.
assignment_of(identifier, value, is_declaration) ==
    IF value.r.st = "Err" THEN value
    ELSE Parsed(Ok(Assignment(identifier.v, value.r.v, is_declaration)),
                value.self)

parse_assignment(self, identifier, is_declaration) ==
    IF tokenizer_peek(self) = <<>> THEN Parsed(Err(UnexpectedEOF), self)
    ELSE IF tokenizer_peek(self)[1].st = "Err"
    THEN Parsed(Err(tokenizer_peek(self)[1].e), tokenizer_next(self).self)
    ELSE IF PeekIs(self, {"LeftParen"})
    THEN func_declearion_arrow(
             identifier,
             enclosed(tokenizer_peek(self)[1].v,
                      parse_arguments(tokenizer_next(self).self),
                      TokenKind("RightParen")))
    ELSE IF PeekIs(self, {"Assignment"})
    THEN assignment_of(identifier,
                       parse_bool_expr(tokenizer_next(self).self),
                       is_declaration)
    ELSE Parsed(unexpected_token(
                    tokenizer_peek(self)[1].v,
                    <<TokenKind("LeftParen"), TokenKind("Assignment")>>),
                tokenizer_next(self).self)

\* The Ok(Node::If {..}) with an else block.
if_of(condition, block, else_block) ==
    IF else_block.r.st = "Err" THEN else_block
    ELSE Parsed(Ok(If(condition, block, <<else_block.r.v>>)),
                else_block.self)

\* After the `else` and the new lines that follow it.
parse_else(self) ==
    IF PeekIs(self, {"If"}) THEN parse_if(self) ELSE parse_block(self)

\* After the block and the new lines that follow it.
if_else(condition, block, self) ==
    IF PeekIs(self, {"Else"})
    THEN if_of(condition, block,
               parse_else(consume(tokenizer_next(self).self,
                                  TokenKind("NewLine"))))
    ELSE Parsed(Ok(If(condition, block, <<>>)), self)

\* `?` on the block.
if_block(condition, block) ==
    IF block.r.st = "Err" THEN block
    ELSE if_else(condition, block.r.v,
                 consume(block.self, TokenKind("NewLine")))

\* `?` on the condition.
if_condition(condition) ==
    IF condition.r.st = "Err" THEN condition
    ELSE if_block(condition.r.v, parse_block(condition.self))

parse_if(self) == if_condition(parse_bool_expr(tokenizer_next(self).self))

\* The Ok(Node::While {..}) of parse_while.
while_of(condition, block) ==
    IF block.r.st = "Err" THEN block
    ELSE Parsed(Ok(While(condition, block.r.v)), block.self)

\* `?` on the condition.
while_condition(condition) ==
    IF condition.r.st = "Err" THEN condition
    ELSE while_of(condition.r.v, parse_block(condition.self))

parse_while(self) ==
    while_condition(parse_bool_expr(tokenizer_next(self).self))

\* The Ok(Node::Return {..}) of parse_return.
return_of(value) ==
    IF value.r.st = "Err" THEN value
    ELSE Parsed(Ok(Return(value.r.v)), value.self)

parse_return(self) == return_of(parse_bool_expr(tokenizer_next(self).self))

\* The Ok(Node::ListAssignment {..}) of parse_identifier_statement.
list_assignment_of(identifier, at, value) ==
    IF value.r.st = "Err" THEN value
    ELSE Parsed(Ok(ListAssignment(identifier.v, at, value.r.v)),
                value.self)

\* `?` on expect_token(Assignment), then the value.
list_assignment_value(identifier, at, assignment) ==
    IF assignment.r.st = "Err" THEN assignment
    ELSE list_assignment_of(identifier, at,
                            parse_bool_expr(assignment.self))

\* `?` on the index closed by `]`, then the `=`.
list_assignment_index(identifier, at) ==
    IF at.r.st = "Err" THEN at
    ELSE list_assignment_value(
             identifier, at.r.v,
             expect_token(at.self, TokenKind("Assignment")))

\* `?` on the `[`, then the index.
list_assignment(identifier, start) ==
    IF start.r.st = "Err" THEN start
    ELSE list_assignment_index(
             identifier,
             enclosed(start.r.v, parse_expr(start.self),
                      TokenKind("RightBracket")))

\* The `match self.tokenizer.peek()` of parse_identifier_statement.
identifier_statement(identifier) ==
    IF identifier.r.st = "Err" THEN identifier
    ELSE IF PeekIs(identifier.self, {"Assignment"})
    THEN parse_assignment(identifier.self, identifier.r.v, FALSE)
    ELSE IF PeekIs(identifier.self, {"LeftParen"})
    THEN parse_func_call(identifier.self, identifier.r.v)
    ELSE IF PeekIs(identifier.self, {"LeftBracket"})
    THEN list_assignment(
             identifier.r.v,
             expect_token(identifier.self, TokenKind("LeftBracket")))
    ELSE IF tokenizer_peek(identifier.self) = <<>>
    THEN Parsed(Err(UnexpectedEOF), identifier.self)
    ELSE IF tokenizer_peek(identifier.self)[1].st = "Err"
    THEN Parsed(Err(tokenizer_peek(identifier.self)[1].e),
                tokenizer_next(identifier.self).self)
    ELSE Parsed(unexpected_token(
                    tokenizer_peek(identifier.self)[1].v,
                    <<TokenKind("Assignment"), TokenKind("LeftParen")>>),
                tokenizer_next(identifier.self).self)

parse_identifier_statement(self) ==
    identifier_statement(expect_token(self, TokenKindOf("Identifier", "")))

\* `?` on the identifier after `let`.
let_of(identifier) ==
    IF identifier.r.st = "Err" THEN identifier
    ELSE parse_assignment(identifier.self, identifier.r.v, TRUE)

\* parse_statement taking an expression for a statement.
parse_statement_takes_expressions(self) ==
    IF tokenizer_peek(self) = <<>> THEN Parsed(Err(UnexpectedEOF), self)
    ELSE IF tokenizer_peek(self)[1].st = "Err"
    THEN Parsed(Err(tokenizer_peek(self)[1].e), tokenizer_next(self).self)
    ELSE IF PeekIs(self, {"Let"})
    THEN let_of(expect_token(tokenizer_next(self).self,
                             TokenKindOf("Identifier", "")))
    ELSE IF PeekIs(self, {"If"}) THEN parse_if(self)
    ELSE IF PeekIs(self, {"While"}) THEN parse_while(self)
    ELSE IF PeekIs(self, {"Identifier"}) THEN parse_identifier_statement(self)
    ELSE IF PeekIs(self, {"Return"}) THEN parse_return(self)
    ELSE parse_bool_expr(self)

parse_statement(self) ==
    IF tokenizer_peek(self) = <<>> THEN Parsed(Err(UnexpectedEOF), self)
    ELSE IF tokenizer_peek(self)[1].st = "Err"
    THEN Parsed(Err(tokenizer_peek(self)[1].e), tokenizer_next(self).self)
    ELSE IF PeekIs(self, {"Let"})
    THEN let_of(expect_token(tokenizer_next(self).self,
                             TokenKindOf("Identifier", "")))
    ELSE IF PeekIs(self, {"If"}) THEN parse_if(self)
    ELSE IF PeekIs(self, {"While"}) THEN parse_while(self)
    ELSE IF PeekIs(self, {"Identifier"}) THEN parse_identifier_statement(self)
    ELSE IF PeekIs(self, {"Return"}) THEN parse_return(self)
    ELSE Parsed(unexpected_token(
                    tokenizer_peek(self)[1].v,
                    <<TokenKind("Let"), TokenKind("If"), TokenKind("While"),
                      TokenKindOf("Identifier", "")>>),
                tokenizer_next(self).self)

\* The `while let` of parse_program, with the statements pushed so far.
RECURSIVE parse_program_while(_, _)

\* `?` on the statement, and the push.
program_push(statement, statements) ==
    IF statement.r.st = "Err" THEN statement
    ELSE parse_program_while(statement.self,
                             Append(statements, statement.r.v))

parse_program_while(self, statements) ==
    IF tokenizer_peek(self) = <<>>
    THEN Parsed(Ok(Program(statements)), self)
    ELSE IF PeekIs(self, {"RightCurly"})
    THEN Parsed(Ok(Program(statements)), self)
    ELSE IF PeekIs(self, {"NewLine"})
    THEN parse_program_while(tokenizer_next(self).self, statements)
    ELSE program_push(parse_statement(self), statements)

parse_program(self) == parse_program_while(self, <<>>)

\* Parser::parse
parse(self) == parse_program(self)

(* ------------------ parsing and evaluating expressions ---------------- *)

\* Binary operators of any kinds in a row in an expression.
MaxOperators == 2
\* Binary operators of one precedence level in a row in an expression.
MaxChain == 3

\* The source text of each operator.
Lexeme ==
    ("Add" :> <<"+">>) @@ ("Sub" :> <<"-">>) @@ ("Mul" :> <<"*">>)
    @@ ("Div" :> <<"/">>) @@ ("Mod" :> <<"%">>) @@ ("Pow" :> <<"^">>)
    @@ ("And" :> <<"a", "n", "d">>) @@ ("Or" :> <<"o", "r">>)
    @@ ("Not" :> <<"n", "o", "t">>) @@ ("Equals" :> <<"=", "=">>)
    @@ ("NotEquals" :> <<"!", "=">>) @@ ("Greater" :> <<">">>)
    @@ ("GreaterEq" :> <<">", "=">>) @@ ("LessThan" :> <<"<">>)
    @@ ("LessThanEq" :> <<"<", "=">>)

\* The operators of each method that calls parse_binary_op, loosest first.
Levels ==
    <<{"Or"}, {"And"}, COMPERATORS, {"Add", "Sub"}, {"Mul", "Div", "Mod"},
      {"Pow"}>>

\* The operands of an expression are the literals 1, 2, 3, 1, 2, 3, ...
OperandValue(i) == ((i - 1) % 3) + 1
Operand(i) == <<CHOOSE c \in DOMAIN Digit : Digit[c] = OperandValue(i)>>

\* `1 op 2 op 3 ...` for the operators ops.
RECURSIVE Infix(_)
Infix(ops) ==
    IF ops = <<>> THEN Operand(1)
    ELSE Infix(SubSeq(ops, 1, Len(ops) - 1)) \o <<" ">>
         \o Lexeme[ops[Len(ops)]] \o <<" ">> \o Operand(Len(ops) + 1)

\* `u 1 op 2` and `1 op u 2` for a unary operator u.
Prefixed(u, op) == Lexeme[u] \o <<" ">> \o Infix(<<op>>)
PrefixedRight(op, u) ==
    Operand(1) \o <<" ">> \o Lexeme[op] \o <<" ">> \o Lexeme[u] \o <<" ">>
    \o Operand(2)

\* The sequences of 1 to n elements of S.
RECURSIVE SeqsUpTo(_, _)
SeqsUpTo(S, n) ==
    IF n = 0 THEN {}
    ELSE SeqsUpTo(S, n - 1)
         \cup {<<x>> : x \in S}
         \cup {Append(s, x) : s \in SeqsUpTo(S, n - 1), x \in S}

OperatorRows == SeqsUpTo(BinaryOperators, MaxOperators)
Chains == UNION {SeqsUpTo(Levels[l], MaxChain) : l \in DOMAIN Levels}
\* The source text of each row of operators.
InfixOf == [ops \in OperatorRows \cup Chains |-> Infix(ops)]
InfixTexts == {InfixOf[ops] : ops \in DOMAIN InfixOf}

\* The number of chars of chars before its first space.
RECURSIVE WordLength(_)
WordLength(chars) ==
    IF chars = <<>> \/ Head(chars) = " " THEN 0
    ELSE 1 + WordLength(Tail(chars))

\* The row of operators of a text of InfixTexts: every second word.
RECURSIVE RowOf(_)
RowOf(text) ==
    IF Len(text) <= 1 THEN <<>>
    ELSE LET rest == SubSeq(text, 3, Len(text))
             n == WordLength(rest)
         IN <<CHOOSE op \in DOMAIN Lexeme : Lexeme[op] = SubSeq(rest, 1, n)>>
            \o RowOf(SubSeq(rest, n + 2, Len(rest)))

\* `2 ^ 3 ^ 2`
PowerInput == <<"2", " ", "^", " ", "3", " ", "^", " ", "2">>
\* `(1 + 2) * 3`
ParenInput == <<"(", "1", " ", "+", " ", "2", ")", " ", "*", " ", "3">>
\* `- - 2 ^ 2`, `not not 1 < 2`, `[1 + 1]`, `x`, `x[1]`, `print(7)`, `1 +`,
\* `(1`, `1 @ 2` and the empty text
OtherInputs ==
    {<<"-", " ", "-", " ", "2", " ", "^", " ", "2">>,
     <<"n", "o", "t", " ", "n", "o", "t", " ", "1", " ", "<", " ", "2">>,
     <<"[", "1", " ", "+", " ", "1", "]">>,
     <<"x">>,
     <<"x", "[", "1", "]">>,
     <<"p", "r", "i", "n", "t", "(", "7", ")">>,
     <<"1", " ", "+">>,
     <<"(", "1">>,
     <<"1", " ", "@", " ", "2">>,
     <<>>}

Expressions ==
    InfixTexts
    \cup {Prefixed(u, op) : u \in UnaryOperators, op \in BinaryOperators}
    \cup {PrefixedRight(op, u) : op \in BinaryOperators, u \in UnaryOperators}
    \cup {PowerInput, ParenInput}
    \cup OtherInputs

InitParser ==
    /\ EvaluatorNew
    /\ ValueIdle
    /\ input \in Expressions
    /\ tokenizer = TokenizerNew(input)
    /\ yielded = <<>>
    /\ mark = 0
    /\ peeked = NoPeek
    /\ remaining = <<>>
    /\ ast = Pending

\* Parser::new(tokenizer) and parse_bool_expr, once the tokenizer has
\* yielded its items.
Parse ==
    /\ Collected
    /\ ast = Pending
    /\ ast' = parse_bool_expr(ParserNew(yielded)).r
    /\ remaining' = parse_bool_expr(ParserNew(yielded)).self
    /\ UNCHANGED <<input, tokenizer, yielded, mark, peeked, evaluatorVars,
                   valueVars>>

\* evaluator.evaluate(&ast) on the node parsed.
Evaluate ==
    /\ ast.st = "Ok"
    /\ lines = 0
    /\ stack = <<>>
    /\ stack' = <<Frame(ast.v, tables, heap)>>
    /\ lines' = 1
    /\ UNCHANGED <<tables, heap, res, done, returning, steps>>
    /\ UNCHANGED <<frontVars, valueVars>>

NextParser ==
    \/ TokenizerNext
    \/ Parse
    \/ Evaluate
    \/ EvalAtom
    \/ EvalList
    \/ EvalBinaryOp
    \/ EvalUnaryOp
    \/ EvalAccess
    \/ EvalIndex
    \/ EvalFuncCall

SpecParser == InitParser /\ [][NextParser]_vars

\* The node without the positions of its Atoms' tokens.
RECURSIVE Shape(_)
Shape(node) ==
    CASE node.k = "Atom" ->
           Atom([kind |-> node.value.kind, v |-> node.value.v])
      [] node.k = "BinaryOp" ->
           BinaryOp(Shape(node.left), node.operator, Shape(node.right))
      [] node.k = "UnaryOp" -> UnaryOp(node.operator, Shape(node.value))
      [] OTHER -> node

\* The evaluation of the parsed node has returned.
Evaluated == lines = 1 /\ stack = <<>> /\ res.st # "Pending"

ParserTypeOK == ast.st \in {"Pending", "Ok", "Err"}

\* The precedence the language gives its operators, loosest first:
\* or, and, not, comparisons, + -, * / %, unary + -, ^.
Precedence ==
    [op \in BinaryOperators |->
        CASE op = "Or" -> 1
          [] op = "And" -> 2
          [] op \in COMPERATORS -> 4
          [] op \in {"Add", "Sub"} -> 5
          [] op \in {"Mul", "Div", "Mod"} -> 6
          [] op = "Pow" -> 8]
UnaryPrecedence == [op \in UnaryOperators |-> IF op = "Not" THEN 3 ELSE 7]

(* C14: precedence, loosest to tightest, is or, and, not, comparisons,     *)
(* + -, * / %, unary + -, ^, atom, and the node of the tighter operator is *)
(* nested inside the node of the looser one: in `1 a 2 b 3` the tighter of *)
(* a and b takes 2, in `u 1 b 2` a unary u tighter than b takes 1 alone    *)
(* and a looser one takes `1 b 2`, a parenthesised expression is an atom,  *)
(* and `1 + 2 * 3` evaluates to Integer(7).                                *)
C14_Precedence ==
    ast # Pending =>
        /\ input \in InfixTexts =>
               LET a == RowOf(input)[1]
                   b == RowOf(input)[2]
               IN Len(RowOf(input)) = 2 /\ Precedence[a] # Precedence[b] =>
                      /\ ast.st = "Ok"
                      /\ Shape(ast.v)
                           = IF Precedence[b] > Precedence[a]
                             THEN BinaryOp(IntLit(1), a,
                                           BinaryOp(IntLit(2), b, IntLit(3)))
                             ELSE BinaryOp(BinaryOp(IntLit(1), a, IntLit(2)),
                                           b, IntLit(3))
        /\ \A u \in UnaryOperators, b \in BinaryOperators :
               input = Prefixed(u, b) =>
                   /\ ast.st = "Ok"
                   /\ Shape(ast.v)
                        = IF UnaryPrecedence[u] < Precedence[b]
                          THEN UnaryOp(u, BinaryOp(IntLit(1), b, IntLit(2)))
                          ELSE BinaryOp(UnaryOp(u, IntLit(1)), b, IntLit(2))
        /\ input = ParenInput =>
               /\ ast.st = "Ok"
               /\ Shape(ast.v)
                    = BinaryOp(BinaryOp(IntLit(1), "Add", IntLit(2)), "Mul",
                               IntLit(3))
        /\ input = Infix(<<"Add", "Mul">>) /\ Evaluated =>
               res = Ok(Integer(7))

\* `1 + 2 * 3` is parsed to BinaryOp(1, +, BinaryOp(2, *, 3)) and evaluated
\* to Integer(7).
C14_Witness ==
    /\ input = <<"1", " ", "+", " ", "2", " ", "*", " ", "3">>
    /\ ast.st = "Ok"
    /\ Shape(ast.v)
         = BinaryOp(IntLit(1), "Add", BinaryOp(IntLit(2), "Mul", IntLit(3)))
    /\ Evaluated
    /\ res = Ok(Integer(7))

\* `((1 op 2) op 3) op 1 ...`: the operators ops applied from the left.
RECURSIVE LeftNested(_)
LeftNested(ops) ==
    IF ops = <<>> THEN IntLit(OperandValue(1))
    ELSE BinaryOp(LeftNested(SubSeq(ops, 1, Len(ops) - 1)), ops[Len(ops)],
                  IntLit(OperandValue(Len(ops) + 1)))

\* `1 op (2 op (3 op 1 ...))` from the i-th operand on: the operators ops
\* applied from the right.
RECURSIVE RightNested(_, _)
RightNested(ops, i) ==
    IF ops = <<>> THEN IntLit(OperandValue(i))
    ELSE BinaryOp(IntLit(OperandValue(i)), Head(ops),
                  RightNested(Tail(ops), i + 1))

(* C15: a chain of binary operators of one precedence level groups from    *)
(* the left, whatever its length, for every operator but `^`; a chain of   *)
(* `^` groups from the right, whatever its length: `1 - 2 - 3` is          *)
(* (1 - 2) - 3 = -4 and `2 ^ 3 ^ 2` is 2 ^ (3 ^ 2) = 512.                  *)
C15_Associativity ==
    ast # Pending =>
        /\ input \in InfixTexts =>
               LET ops == RowOf(input)
               IN ops \in Chains =>
                      /\ ast.st = "Ok"
                      /\ Shape(ast.v) = IF ops[1] = "Pow"
                                        THEN RightNested(ops, 1)
                                        ELSE LeftNested(ops)
        /\ input = Infix(<<"Sub", "Sub">>) /\ Evaluated =>
               res = Ok(Integer(-4))
        /\ input = PowerInput =>
               /\ ast.st = "Ok"
               /\ Shape(ast.v)
                    = BinaryOp(IntLit(2), "Pow",
                               BinaryOp(IntLit(3), "Pow", IntLit(2)))
               /\ Evaluated => res = Ok(Integer(512))

\* `2 ^ 3 ^ 2` is parsed to BinaryOp(2, ^, BinaryOp(3, ^, 2)) and evaluated
\* to Integer(512).
C15_Witness ==
    /\ input = PowerInput
    /\ ast.st = "Ok"
    /\ Shape(ast.v)
         = BinaryOp(IntLit(2), "Pow", BinaryOp(IntLit(3), "Pow", IntLit(2)))
    /\ Evaluated
    /\ res = Ok(Integer(512))

\* `1 / 2 * 3 % 1` is parsed to ((1 / 2) * 3) % 1.
C15_WitnessLeft ==
    /\ input = Infix(<<"Div", "Mul", "Mod">>)
    /\ ast.st = "Ok"
    /\ Shape(ast.v) = LeftNested(<<"Div", "Mul", "Mod">>)
    /\ Evaluated

(* ------------------------- parsing statements ------------------------- *)
(* The parser is given the tokens of a line of words, one word a column.  *)
(* `input` is the line, `yielded` the items of its tokenizer.             *)

\* The TokenKind of a word.
KindOfWord(word) ==
    CASE word = "let" -> TokenKind("Let")
      [] word = "if" -> TokenKind("If")
      [] word = "else" -> TokenKind("Else")
      [] word = "while" -> TokenKind("While")
      [] word = "return" -> TokenKind("Return")
      [] word = "," -> TokenKind("Comma")
      [] word = "=>" -> TokenKind("DoubleArrow")
      [] word = "=" -> TokenKind("Assignment")
      [] word = "+" -> TokenKind("Add")
      [] word = "<" -> TokenKind("LessThan")
      [] word = "(" -> TokenKind("LeftParen")
      [] word = ")" -> TokenKind("RightParen")
      [] word = "[" -> TokenKind("LeftBracket")
      [] word = "]" -> TokenKind("RightBracket")
      [] word = "{" -> TokenKind("LeftCurly")
      [] word = "}" -> TokenKind("RightCurly")
      [] word = "\n" -> TokenKind("NewLine")
      [] word = "True" -> TokenKindOf("Boolean", TRUE)
      [] word = "1" -> TokenKindOf("Integer", 1)
      [] word = "2" -> TokenKindOf("Integer", 2)
      [] OTHER -> TokenKindOf("Identifier", word)

\* The item of the word at a column; `$` is no character of the language.
ItemOfWord(word, column) ==
    IF word = "$"
    THEN <<Err(UnexpectedChar(PositionNew(1, column), "$"))>>
    ELSE <<Ok(TokenNew(PositionNew(1, column), <<>>, KindOfWord(word)))>>

\* The items of a line, None at its end, as TokenizerNext collects them.
ItemsOfWords(words) ==
    [i \in 1..(Len(words) + 1) |->
        IF i <= Len(words)
        THEN [item |-> ItemOfWord(words[i], i), from |-> i - 1]
        ELSE [item |-> <<>>, from |-> Len(words)]]

\* The token of the i-th word of the line.
TokenAt(i) == yielded[i].item[1].v

\* Statements of the grammar, bare expressions, and a statement followed
\* by a `}` and a character that is none of the language.
StatementWords ==
    { <<"let", "x", "=", "1">>,
      <<"x", "=", "x", "+", "1">>,
      <<"let", "f", "(", "a", ",", "b", ")", "=>", "{", "return", "a", "}">>,
      <<"f", "(", "1", ",", "x", ")">>,
      <<"a", "[", "1", "]", "=", "[", "1", ",", "2", "]">>,
      <<"if", "x", "<", "1", "{", "return", "1", "}",
        "else", "{", "return", "2", "}">>,
      <<"if", "x", "{", "return", "1", "}", "\n",
        "else", "if", "True", "{", "return", "(", "2", ")", "}">>,
      <<"while", "x", "<", "2", "{", "return", "f", "(", "x", ")", "}">>,
      <<"return", "(", "1", "+", "2", ")">>,
      <<"return", "a", "[", "1", "]">>,
      <<"return", "[", "1", ",", "2", "]">>,
      <<"1", "+", "2">>,
      <<"x", "+", "1">>,
      <<"return", "1", "}", "$">> }

\* Words that are put where they do not belong.
Strays == {"}", "$"}

\* A statement cut short, with a word left out, or with a stray word.
Edits(words) ==
    {SubSeq(words, 1, n) : n \in 0..Len(words)}
    \cup {SubSeq(words, 1, i - 1) \o SubSeq(words, i + 1, Len(words)) :
              i \in 1..Len(words)}
    \cup {SubSeq(words, 1, i) \o <<stray>> \o SubSeq(words, i + 1, Len(words)) :
              i \in 0..Len(words), stray \in Strays}

\* Statements that parse, to go before another one.
LeadingWords ==
    { <<"return", "1", "\n">>,
      <<"while", "x", "{", "return", "2", "}", "\n">> }

\* Statements of a line.
MaxStatements == 2

\* Up to n leading statements.
RECURSIVE Leading(_)
Leading(n) ==
    IF n = 0 THEN {<<>>}
    ELSE Leading(n - 1)
         \cup {lead \o words : lead \in Leading(n - 1), words \in LeadingWords}

\* An opening delimiter with its contents and no closing delimiter, after
\* words that leave the parser where the construct may start.
Opened(kind, before, contents, delimiter) ==
    [kind |-> kind, before |-> before, contents |-> contents,
     delimiter |-> delimiter]
OpenedWords ==
    {Opened("group", before, <<"1", "+", "2">>, ")") :
         before \in {<<"return", "(">>, <<"while", "(">>,
                     <<"return", "1", "+", "(">>}}
    \cup {Opened("index", before, <<"1">>, "]") :
              before \in {<<"return", "a", "[">>, <<"if", "a", "[">>}}
    \cup {Opened("call", before, <<"1", ",", "x">>, ")") :
              before \in {<<"return", "f", "(">>, <<"while", "f", "(">>}}
    \cup {Opened("list", before, <<"1", ",", "2">>, "]") :
              before \in {<<"return", "[">>, <<"return", "1", "+", "[">>}}
    \cup {Opened("block", before, <<"return", "1">>, "}") :
              before \in {<<"while", "x", "{">>, <<"if", "x", "{">>,
                          <<"if", "x", "{", "return", "2", "}", "else", "{">>}}

\* What is met where the closing delimiter should be; <<>> is the end.
Met == {<<>>, <<")">>, <<"]">>, <<"}">>, <<"2">>, <<"\n">>, <<"=">>}

UnclosedWords(opened, met) == opened.before \o opened.contents \o met

StatementInputs ==
    {lead \o words :
         lead \in Leading(MaxStatements - 1),
         words \in UNION {Edits(statement) : statement \in StatementWords}}
    \cup {UnclosedWords(opened, met) : opened \in OpenedWords, met \in Met}

InitStatements ==
    /\ EvaluatorNew
    /\ ValueIdle
    /\ input \in StatementInputs
    /\ tokenizer = <<>>
    /\ yielded = ItemsOfWords(input)
    /\ mark = 0
    /\ peeked = NoPeek
    /\ ast = Pending
    /\ remaining = <<>>

\* Parser::new(tokenizer).parse()
ParseProgram ==
    /\ ast = Pending
    /\ ast' = parse(ParserNew(yielded)).r
    /\ remaining' = parse(ParserNew(yielded)).self
    /\ UNCHANGED <<input, tokenizer, yielded, mark, peeked, evaluatorVars,
                   valueVars>>

NextStatements == ParseProgram

SpecStatements == InitStatements /\ [][NextStatements]_vars

\* The line has been parsed.
HasParsed == ast.st # "Pending"

\* The parser has rejected a token.
RejectedToken == ast.st = "Err" /\ ast.e.kind = "UnexpectedToken"

(* C26: the comparison of TokenKinds the parser uses for its lookahead     *)
(* looks at the variant only, never at the payload: a token is not         *)
(* rejected where a kind of its variant is expected, and `let x = 1`       *)
(* parses to the declaring Assignment of x.                                *)
C26_PayloadInsensitive ==
    /\ RejectedToken =>
           \A i \in DOMAIN ast.e.expected :
               ast.e.expected[i].kind # ast.e.token.kind
    /\ input = <<"let", "x", "=", "1">> /\ HasParsed =>
           ast = Ok(Program(<<Assignment("x", Atom(TokenAt(4)), TRUE)>>))

\* `let x = 1`: the identifier x is rejected where Identifier("") is
\* expected.
C26_Witness ==
    /\ input = <<"let", "x", "=", "1">>
    /\ ast = Err(UnexpectedToken(TokenAt(2),
                                 <<TokenKindOf("Identifier", "")>>))
    /\ remaining = ParserNew(SubSeq(yielded, 3, Len(yielded)))

(* C27: when parse returns Ok(Program), the whole token stream has been    *)
(* consumed: no token and no lexical error is left in the tokenizer after  *)
(* the statements of the program.                                          *)
C27_WholeStreamConsumed == ast.st = "Ok" => remaining = <<>>

\* `return 1`, a new line, `while x { return 2 }`, `}` and `1 + 2`: the
\* two statements are the program and the rest is left unread.
C27_Witness ==
    /\ ast.st = "Ok"
    /\ Len(ast.v.statements) = 2
    /\ Len(remaining) = 4
    /\ remaining[1] = <<Ok(TokenAt(Len(input) - 3))>>
    /\ TokenAt(Len(input) - 3).kind = "RightCurly"

\* A lexical error is left unread after a `}`.
C27_ErrorLeft ==
    /\ ast.st = "Ok"
    /\ Len(remaining) >= 2
    /\ \E i \in 2..Len(remaining) : remaining[i][1].st = "Err"

(* C27 as the code has it: parse returns Ok(Program) at the end of the     *)
(* stream or at a `}` that no block is waiting for, and leaves that `}`    *)
(* and what follows it in the tokenizer.                                   *)
C27_StopsAtRightCurly ==
    ast.st = "Ok" /\ remaining # <<>> =>
        /\ remaining[1][1].st = "Ok"
        /\ remaining[1][1].v.kind = "RightCurly"
        /\ ast.v.k = "Program"

\* The places of the line where the parser starts a statement: after
\* leading statements that parse, at a word that is no new line.
StatementStarts ==
    {i \in 1..Len(input) :
        /\ SubSeq(input, 1, i - 1) \in Leading(MaxStatements - 1)
        /\ input[i] \notin {"\n", "$"}}

\* The word at i is a token of one of the kinds.
WordIs(i, kinds) ==
    /\ i <= Len(input)
    /\ input[i] # "$"
    /\ TokenAt(i).kind \in kinds

\* parse has failed with UnexpectedToken carrying the token at i (tokens
\* differ in where they start).
RejectedAt(i) == RejectedToken /\ ast.e.token.start = TokenAt(i).start

C24_IdentifierRejected ==
    /\ input = <<"x", "+", "1">>
    /\ ast = Err(UnexpectedToken(TokenAt(1),
                                 <<TokenKindOf("Identifier", "")>>))

(* C24 as the code has it: a statement that starts with a token other     *)
(* than `let`, `if`, `while`, `return` and an identifier is rejected at    *)
(* that token with the kinds Let, If, While and Identifier expected; one   *)
(* that starts with an identifier is rejected at the identifier.           *)
C24_StatementStartAsCoded ==
    HasParsed =>
        \A i \in StatementStarts :
            /\ ~WordIs(i, {"Let", "If", "While", "Return", "Identifier",
                           "RightCurly"})
                   => ast = Err(UnexpectedToken(
                                    TokenAt(i),
                                    <<TokenKind("Let"), TokenKind("If"),
                                      TokenKind("While"),
                                      TokenKindOf("Identifier", "")>>))
            /\ WordIs(i, {"Identifier"})
                   => ast = Err(UnexpectedToken(
                                    TokenAt(i),
                                    <<TokenKindOf("Identifier", "")>>))

\* One TokenKind of every variant (a sequence: payloads differ in type).
PlainKinds ==
    <<"Let", "If", "Else", "While", "Return", "Comma", "DoubleArrow", "Arrow",
      "Assignment", "Add", "Sub", "Mul", "Div", "Mod", "Pow", "Not", "And",
      "Or", "None", "LeftParen", "RightParen", "LeftBracket", "RightBracket",
      "LeftCurly", "RightCurly", "NewLine", "Equals", "NotEquals", "Greater",
      "GreaterEq", "LessThan", "LessThanEq">>
TokenKinds ==
    [i \in DOMAIN PlainKinds |-> TokenKind(PlainKinds[i])]
    \o <<TokenKindOf("Integer", 1), TokenKindOf("Float", Float(1, 2)),
         TokenKindOf("Boolean", TRUE), TokenKindOf("Identifier", "x"),
         TokenKindOf("String", "s"), TokenKindOf("Character", "c")>>

\* The ParserItem for the line with a token of the kind in place of the
\* token at i.
ParsedWith(i, kind) ==
    parse(ParserNew([yielded EXCEPT ![i].item =
                         <<Ok(TokenNew(TokenAt(i).start, <<>>, kind))>>])).r

\* The parser stops at the token that starts at the position: it rejects
\* it, or finds it where a closing delimiter should be.
StopsAt(r, start) ==
    IF r.st # "Err" THEN FALSE
    ELSE IF r.e.kind = "UnexpectedToken" THEN r.e.token.start = start
    ELSE IF r.e.kind = "UnclosedTokenDelimeter"
    THEN IF r.e.found = <<>> THEN FALSE ELSE r.e.found[1].start = start
    ELSE FALSE

\* A token of the kind would have been accepted where parse rejected one.
AcceptedThere(kind) ==
    ~StopsAt(ParsedWith(ast.e.token.start.column, kind), ast.e.token.start)

\* The kind's variant is among the ones the error names.
Listed(kind) ==
    \E j \in DOMAIN ast.e.expected : ast.e.expected[j].kind = kind.kind

(* C25: when the parser reports UnexpectedToken{token, expected}, the      *)
(* kinds in `expected` are the kinds it would have accepted at that        *)
(* position: every kind listed is accepted there and every kind accepted   *)
(* there is listed.                                                        *)
C25_ExpectedIsAccepted ==
    RejectedToken =>
        \A i \in DOMAIN TokenKinds :
            Listed(TokenKinds[i]) <=> AcceptedThere(TokenKinds[i])

\* `1 + 2`: Let, If, While and Identifier are named; `return` would have
\* been accepted and is not named, an identifier is named and would have
\* been rejected.
C25_Witness ==
    /\ input = <<"1", "+", "2">>
    /\ RejectedAt(1)
    /\ ast.e.expected = <<TokenKind("Let"), TokenKind("If"),
                          TokenKind("While"), TokenKindOf("Identifier", "")>>
    /\ AcceptedThere(TokenKind("Return"))
    /\ ~AcceptedThere(TokenKindOf("Identifier", "x"))

(* C25 for the kinds named only: a kind the error names, other than        *)
(* Identifier, would have been accepted where the token was rejected, at   *)
(* the start of a statement and after a leading identifier.                *)
C25_ListedIsAccepted ==
    RejectedToken /\ Len(ast.e.expected) > 1 =>
        \A i \in DOMAIN TokenKinds :
            /\ Listed(TokenKinds[i])
            /\ TokenKinds[i].kind \notin {"Identifier", "Add", "Sub"}
            => AcceptedThere(TokenKinds[i])

\* parse has failed with UnclosedTokenDelimeter: start is the token at i,
\* found the token at j (None if j = 0), delimiter the kind of the word.
UnclosedAt(i, j, delimiter) ==
    /\ ast.st = "Err"
    /\ ast.e.kind = "UnclosedTokenDelimeter"
    /\ ast.e.start.start = TokenAt(i).start
    /\ ast.e.start.kind = TokenAt(i).kind
    /\ IF j = 0 THEN ast.e.found = <<>>
       ELSE IF ast.e.found = <<>> THEN FALSE
       ELSE /\ ast.e.found[1].start = TokenAt(j).start
            /\ ast.e.found[1].kind = TokenAt(j).kind
    /\ ast.e.delimiter = KindOfWord(delimiter)

\* The line is the construct left open, with `met` where it should close.
IsUnclosed(opened, met) ==
    /\ input = UnclosedWords(opened, met)
    /\ met # <<opened.delimiter>>
    /\ HasParsed

\* Where `met` is in the line, 0 at the end of the line.
MetAt(opened, met) ==
    IF met = <<>> THEN 0 ELSE Len(opened.before) + Len(opened.contents) + 1

(* C23: for an opening delimiter the parser accepts, the `(` of a group or *)
(* of a call, the `[` of a list or of an index, the `{` of a block, with   *)
(* contents that parse and no closing token after them, the error is       *)
(* UnclosedTokenDelimeter with start the opening token, found the token    *)
(* met instead (None at the end of the input) and delimiter the closing    *)
(* kind expected.                                                          *)
C23_UnclosedDelimiter ==
    \A opened \in OpenedWords, met \in Met :
        IsUnclosed(opened, met) =>
            UnclosedAt(Len(opened.before), MetAt(opened, met),
                       opened.delimiter)

(* C23 as the code has it.  At the end of the input every construct gives  *)
(* UnclosedTokenDelimeter with found None.  A group and an index give it   *)
(* with the token met instead.  In a call and in a list that token is      *)
(* rejected by parse_parameters, UnexpectedToken expecting the closing     *)
(* kind or a comma; in a block parse_program skips a new line and takes    *)
(* any other token for the start of a statement.                           *)
C23_UnclosedAsCoded ==
    \A opened \in OpenedWords, met \in Met :
        IsUnclosed(opened, met) =>
            IF opened.kind \in {"group", "index"} \/ met = <<>>
            THEN UnclosedAt(Len(opened.before), MetAt(opened, met),
                            opened.delimiter)
            ELSE IF opened.kind \in {"call", "list"}
            THEN /\ RejectedAt(MetAt(opened, met))
                 /\ ast.e.expected = <<KindOfWord(opened.delimiter),
                                       TokenKind("Comma")>>
            ELSE IF met = <<"\n">>
            THEN UnclosedAt(Len(opened.before), 0, opened.delimiter)
            ELSE /\ RejectedAt(MetAt(opened, met))
                 /\ ast.e.expected = <<TokenKind("Let"), TokenKind("If"),
                                       TokenKind("While"),
                                       TokenKindOf("Identifier", "")>>

\* `return ( 1 + 2 =`: the `(` is the start and the `=` is found.
C23_Witness ==
    /\ input = <<"return", "(", "1", "+", "2", "=">>
    /\ UnclosedAt(2, 6, ")")
    /\ remaining = <<>>

\* `return f ( 1 , x ]`: the `]` is rejected, the call is not reported as
\* unclosed.
C23_CallRejectsToken ==
    /\ input = <<"return", "f", "(", "1", ",", "x", "]">>
    /\ RejectedAt(7)

====
